---- MODULE Spec2Model ----
(***************************************************************************)
(* Bunwork: the routing and dispatch engine of src/index.ts (the trie      *)
(* variant, src/unnamed/part_003).                                         *)
(*                                                                         *)
(* A string is a sequence of one-character strings, so that split("/"),    *)
(* startsWith(":"), slice(1) and template concatenation are computed on    *)
(* the characters as the code computes them.                               *)
(*                                                                         *)
(* A Map<string, RouteNode> tree is held flat: a method's route tree is a  *)
(* function from key paths (the sequence of Map keys from the root map to  *)
(* a node) to that node's paramName and handler; a node's children map has *)
(* key k exactly when the node's key path extended by k is in the domain.  *)
(***************************************************************************)
EXTENDS Integers, Sequences, FiniteSets, TLC

\* ------------------------------------------------------------------ strings

Slash == <<"/">>

Colon == <<":">>

Empty == <<>>

\* part.startsWith(":")
StartsWithColon(part) == Len(part) > 0 /\ part[1] = ":"

\* path.startsWith(route)
StartsWith(path, route) ==
  /\ Len(route) <= Len(path)
  /\ SubSeq(path, 1, Len(route)) = route

\* path.split("/").filter(Boolean): the maximal runs of characters other
\* than "/", in order; empty pieces are dropped.
RECURSIVE SplitFrom(_, _, _)
SplitFrom(path, i, cur) ==
  IF i > Len(path)
    THEN IF cur = <<>> THEN <<>> ELSE <<cur>>
    ELSE IF path[i] = "/"
      THEN (IF cur = <<>> THEN <<>> ELSE <<cur>>) \o SplitFrom(path, i + 1, <<>>)
      ELSE SplitFrom(path, i + 1, Append(cur, path[i]))

SplitPath(path) == SplitFrom(path, 1, <<>>)

\* ------------------------------------------------------------- route nodes

NoHandler == "none"

NoName == <<"undefined">>

\* interface RouteNode, without its children map (held by the key paths)
NewNode == [paramName |-> NoName, handler |-> NoHandler]

\* createRouteTree(): GET and POST, each with an empty root map
Methods == {"GET", "POST"}

EmptyTree == [at \in {} |-> NewNode]

CreateRouteTree == [m \in Methods |-> EmptyTree]

\* Map.has(key) on the children map of the node at key path `at`
\* (`at` = <<>> is the method's root map)
Has(tree, at, key) == Append(at, key) \in DOMAIN tree


\* Map.set(key, node) on that children map
Put(tree, at, node) ==
  [p \in DOMAIN tree \cup {at} |-> IF p = at THEN node ELSE tree[p]]

\* if (node.paramName): undefined and "" are falsy
Truthy(name) == name # NoName /\ name # Empty

\* ------------------------------------------------------------------ addRoute

\* addRoute throws "Failed to add route handler" when the loop never ran
AddRouteThrows(path) == path # Slash /\ SplitPath(path) = <<>>

\* addRoute that keeps the handler a node already has
RECURSIVE AddRouteLoop_KeepFirst(_, _, _, _, _)
AddRouteLoop_KeepFirst(tree, parts, i, at, handler) ==
  IF i > Len(parts)
    THEN IF tree[at].handler = NoHandler
           THEN [tree EXCEPT ![at].handler = handler]
           ELSE tree
    ELSE LET part == parts[i]
             key  == IF StartsWithColon(part) THEN Colon ELSE part
             here == Append(at, key)
             t1   == IF Has(tree, at, key) THEN tree ELSE Put(tree, here, NewNode)
             t2   == IF StartsWithColon(part)
                       THEN [t1 EXCEPT ![here].paramName = Tail(part)]
                       ELSE t1
         IN  AddRouteLoop_KeepFirst(t2, parts, i + 1, here, handler)

\* addRoute that sets the handler on every node along the path
RECURSIVE AddRouteLoop_MarkPrefixes(_, _, _, _, _)
AddRouteLoop_MarkPrefixes(tree, parts, i, at, handler) ==
  IF i > Len(parts)
    THEN [tree EXCEPT ![at].handler = handler]
    ELSE LET part == parts[i]
             key  == IF StartsWithColon(part) THEN Colon ELSE part
             here == Append(at, key)
             t1   == IF Has(tree, at, key) THEN tree ELSE Put(tree, here, NewNode)
             t2   == IF StartsWithColon(part)
                       THEN [t1 EXCEPT ![here].paramName = Tail(part)]
                       ELSE t1
             t3   == [t2 EXCEPT ![here].handler = handler]
         IN  AddRouteLoop_MarkPrefixes(t3, parts, i + 1, here, handler)

\* addRoute that keeps one parameter name for all the dynamic nodes of a tree
RECURSIVE AddRouteLoop_SharedName(_, _, _, _, _)
AddRouteLoop_SharedName(tree, parts, i, at, handler) ==
  IF i > Len(parts)
    THEN [tree EXCEPT ![at].handler = handler]
    ELSE LET part == parts[i]
             key  == IF StartsWithColon(part) THEN Colon ELSE part
             here == Append(at, key)
             t1   == IF Has(tree, at, key) THEN tree ELSE Put(tree, here, NewNode)
             t2   == IF StartsWithColon(part)
                       THEN [p \in DOMAIN t1 |->
                               IF p[Len(p)] = Colon
                                 THEN [t1[p] EXCEPT !.paramName = Tail(part)]
                                 ELSE t1[p]]
                       ELSE t1
         IN  AddRouteLoop_SharedName(t2, parts, i + 1, here, handler)

\* addRoute that creates every node of the path with the handler in it
RECURSIVE AddRouteLoop_HandlerOnCreate(_, _, _, _, _)
AddRouteLoop_HandlerOnCreate(tree, parts, i, at, handler) ==
  IF i > Len(parts)
    THEN [tree EXCEPT ![at].handler = handler]
    ELSE LET part == parts[i]
             key  == IF StartsWithColon(part) THEN Colon ELSE part
             here == Append(at, key)
             t1   == IF Has(tree, at, key)
                       THEN tree
                       ELSE Put(tree, here, [NewNode EXCEPT !.handler = handler])
             t2   == IF StartsWithColon(part)
                       THEN [t1 EXCEPT ![here].paramName = Tail(part)]
                       ELSE t1
         IN  AddRouteLoop_HandlerOnCreate(t2, parts, i + 1, here, handler)

\* addRoute that sets a fresh node at every key of the path, whether or not
\* the key was there
RECURSIVE AddRouteLoop_FreshNodes(_, _, _, _, _)
AddRouteLoop_FreshNodes(tree, parts, i, at, handler) ==
  IF i > Len(parts)
    THEN [tree EXCEPT ![at].handler = handler]
    ELSE LET part == parts[i]
             key  == IF StartsWithColon(part) THEN Colon ELSE part
             here == Append(at, key)
             t1   == Put(tree, here, NewNode)
             t2   == IF StartsWithColon(part)
                       THEN [t1 EXCEPT ![here].paramName = Tail(part)]
                       ELSE t1
         IN  AddRouteLoop_FreshNodes(t2, parts, i + 1, here, handler)

\* addRoute that leaves the name of a dynamic node alone once it has one
RECURSIVE AddRouteLoop_KeepName(_, _, _, _, _)
AddRouteLoop_KeepName(tree, parts, i, at, handler) ==
  IF i > Len(parts)
    THEN [tree EXCEPT ![at].handler = handler]
    ELSE LET part == parts[i]
             key  == IF StartsWithColon(part) THEN Colon ELSE part
             here == Append(at, key)
             t1   == IF Has(tree, at, key) THEN tree ELSE Put(tree, here, NewNode)
             t2   == IF StartsWithColon(part) /\ t1[here].paramName = NoName
                       THEN [t1 EXCEPT ![here].paramName = Tail(part)]
                       ELSE t1
         IN  AddRouteLoop_KeepName(t2, parts, i + 1, here, handler)

\* the for loop of addRoute from part i on, `at` being the node reached, then
\* node.handler = handler
RECURSIVE AddRouteLoop(_, _, _, _, _)
AddRouteLoop(tree, parts, i, at, handler) ==
  IF i > Len(parts)
    THEN [tree EXCEPT ![at].handler = handler]
    ELSE LET part == parts[i]
             key  == IF StartsWithColon(part) THEN Colon ELSE part
             here == Append(at, key)
             t1   == IF Has(tree, at, key) THEN tree ELSE Put(tree, here, NewNode)
             t2   == IF StartsWithColon(part)
                       THEN [t1 EXCEPT ![here].paramName = Tail(part)]
                       ELSE t1
         IN  AddRouteLoop(t2, parts, i + 1, here, handler)

\* a root registration that starts the method's tree afresh
SetRoot_ClearsTree(tree, handler) ==
  Put(EmptyTree, <<Slash>>, [paramName |-> NoName, handler |-> handler])

\* root.set("/", { children: new Map(), handler }): the node under key "/"
\* is replaced by a fresh one without children
SetRoot(tree, handler) ==
  LET kept == {p \in DOMAIN tree : p[1] # Slash}
      base == [p \in kept |-> tree[p]]
  IN  Put(base, <<Slash>>, [paramName |-> NoName, handler |-> handler])

\* addRoute(method, path, handler) on the method's tree, when it does not throw
AddRoute(tree, path, handler) ==
  IF path = Slash
    THEN SetRoot(tree, handler)
    ELSE AddRouteLoop(tree, SplitPath(path), 1, <<>>, handler)

\* ---------------------------------------------------------------- matchRoute

NoParams == [n \in {} |-> Empty]

SetParam(params, name, value) ==
  [n \in DOMAIN params \cup {name} |-> IF n = name THEN value ELSE params[n]]

\* matchRoute that tries the dynamic child before the literal one
RECURSIVE MatchLoop_DynamicFirst(_, _, _, _, _)
MatchLoop_DynamicFirst(tree, parts, i, at, params) ==
  IF i > Len(parts)
    THEN [found |-> TRUE, at |-> at, params |-> params]
    ELSE LET part == parts[i] IN
         IF Has(tree, at, Colon)
           THEN LET node == tree[Append(at, Colon)] IN
                MatchLoop_DynamicFirst(tree, parts, i + 1, Append(at, Colon),
                          IF Truthy(node.paramName)
                            THEN SetParam(params, node.paramName, part)
                            ELSE params)
           ELSE IF Has(tree, at, part)
             THEN MatchLoop_DynamicFirst(tree, parts, i + 1, Append(at, part), params)
             ELSE [found |-> FALSE, at |-> at, params |-> params]

\* matchRoute that goes back to the dynamic child when the literal branch
\* does not end on a handler
RECURSIVE MatchLoop_Backtracks(_, _, _, _, _)
MatchLoop_Backtracks(tree, parts, i, at, params) ==
  IF i > Len(parts)
    THEN [found |-> TRUE, at |-> at, params |-> params]
    ELSE LET part    == parts[i]
             literal == IF Has(tree, at, part)
                          THEN MatchLoop_Backtracks(tree, parts, i + 1,
                                                    Append(at, part), params)
                          ELSE [found |-> FALSE, at |-> at, params |-> params]
         IN  IF literal.found /\ tree[literal.at].handler # NoHandler
               THEN literal
               ELSE IF Has(tree, at, Colon)
                 THEN LET node == tree[Append(at, Colon)] IN
                      MatchLoop_Backtracks(tree, parts, i + 1, Append(at, Colon),
                                IF Truthy(node.paramName)
                                  THEN SetParam(params, node.paramName, part)
                                  ELSE params)
                 ELSE [found |-> FALSE, at |-> at, params |-> params]

\* the for loop of matchRoute from part i on; found = FALSE is `return null`
RECURSIVE MatchLoop(_, _, _, _, _)
MatchLoop(tree, parts, i, at, params) ==
  IF i > Len(parts)
    THEN [found |-> TRUE, at |-> at, params |-> params]
    ELSE LET part == parts[i] IN
         IF Has(tree, at, part)
           THEN MatchLoop(tree, parts, i + 1, Append(at, part), params)
           ELSE IF Has(tree, at, Colon)
             THEN LET node == tree[Append(at, Colon)] IN
                  MatchLoop(tree, parts, i + 1, Append(at, Colon),
                            IF Truthy(node.paramName)
                              THEN SetParam(params, node.paramName, part)
                              ELSE params)
             ELSE [found |-> FALSE, at |-> at, params |-> params]

NoMatch == [kind |-> "null", handler |-> NoHandler, params |-> NoParams]

\* matchRoute without the root fallback `node ??= current.get("/")`
MatchRoute_NoRootFallback(rts, method, path) ==
  IF method \notin DOMAIN rts
    THEN [kind |-> "throw", handler |-> NoHandler, params |-> NoParams]
    ELSE LET tree  == rts[method]
             parts == IF path = Slash THEN <<>> ELSE SplitPath(path)
             walk  == MatchLoop(tree, parts, 1, <<>>, NoParams)
         IN  IF /\ parts # <<>>
                /\ walk.found
                /\ walk.at \in DOMAIN tree
                /\ tree[walk.at].handler # NoHandler
               THEN [kind |-> "match", handler |-> tree[walk.at].handler,
                     params |-> walk.params]
               ELSE NoMatch

\* matchRoute for which a trailing slash makes another path
MatchRoute_TrailingSlashSignificant(rts, method, path) ==
  IF method \notin DOMAIN rts
    THEN [kind |-> "throw", handler |-> NoHandler, params |-> NoParams]
    ELSE LET tree  == rts[method]
             parts == IF path = Slash THEN <<>> ELSE SplitPath(path)
             walk  == MatchLoop(tree, parts, 1, <<>>, NoParams)
             at    == IF parts = <<>> THEN <<Slash>> ELSE walk.at
         IN  IF /\ path = Slash \/ path[Len(path)] # "/"
                /\ walk.found
                /\ at \in DOMAIN tree
                /\ tree[at].handler # NoHandler
               THEN [kind |-> "match", handler |-> tree[at].handler,
                     params |-> walk.params]
               ELSE NoMatch

\* matchRoute(method, path): "throw" is the TypeError of this.routes[method].root
\* for a method that createRouteTree() does not hold
MatchRoute(rts, method, path) ==
  IF method \notin DOMAIN rts
    THEN [kind |-> "throw", handler |-> NoHandler, params |-> NoParams]
    ELSE LET tree  == rts[method]
             parts == IF path = Slash THEN <<>> ELSE SplitPath(path)
             walk  == MatchLoop(tree, parts, 1, <<>>, NoParams)
             at    == IF parts = <<>> THEN <<Slash>> ELSE walk.at
         IN  IF walk.found /\ at \in DOMAIN tree /\ tree[at].handler # NoHandler
               THEN [kind |-> "match", handler |-> tree[at].handler,
                     params |-> walk.params]
               ELSE NoMatch

\* --------------------------------------------- the map-and-regex dispatcher

\* \w over the characters paths are written in here: letters, digits and "_"
\* are word characters, "/", ":", "-" and "." are not
IsWordChar(c) == c \notin {"/", ":", "-", "."}

\* isDynamicRoute(path): path.includes(':')
IsDynamicRoute(path) == \E i \in 1..Len(path) : path[i] = ":"

\* [\w-] when dash is TRUE, \w otherwise
InClass(c, dash) == IsWordChar(c) \/ (dash /\ c = "-")

\* how many characters from position p on are of the class, without a gap
RECURSIVE RunLength(_, _, _)
RunLength(path, p, dash) ==
  IF p <= Len(path) /\ InClass(path[p], dash)
    THEN 1 + RunLength(path, p + 1, dash)
    ELSE 0

RegexChar(c) == [group |-> FALSE, ch |-> c, name |-> Empty]

RegexGroup(name) == [group |-> TRUE, ch |-> "", name |-> name]

\* buildRouteRegex: path.replace(/:\w+/g, '([\\w-]+)'), as the sequence of
\* the literal characters and the groups of the resulting expression (none
\* of the characters used is special in a regular expression)
RECURSIVE RegexFrom(_, _)
RegexFrom(path, i) ==
  IF i > Len(path)
    THEN <<>>
    ELSE LET n == RunLength(path, i + 1, FALSE) IN
         IF path[i] = ":" /\ n > 0
           THEN <<RegexGroup(SubSeq(path, i + 1, i + n))>> \o RegexFrom(path, i + n + 1)
           ELSE <<RegexChar(path[i])>> \o RegexFrom(path, i + 1)

BuildRouteRegex(path) == RegexFrom(path, 1)

\* path.match(regex) for ^...$ from token t and position p on: a group takes
\* the longest run of [\w-] for which the rest still matches; caps are the
\* captured texts in order
RECURSIVE RegexMatchFrom(_, _, _, _)
RegexMatchFrom(regex, t, path, p) ==
  IF t > Len(regex)
    THEN [ok |-> p > Len(path), caps |-> <<>>]
    ELSE IF ~regex[t].group
      THEN IF p <= Len(path) /\ path[p] = regex[t].ch
             THEN RegexMatchFrom(regex, t + 1, path, p + 1)
             ELSE [ok |-> FALSE, caps |-> <<>>]
      ELSE LET run  == RunLength(path, p, TRUE)
               lens == {n \in 1..run : RegexMatchFrom(regex, t + 1, path, p + n).ok}
           IN  IF lens = {}
                 THEN [ok |-> FALSE, caps |-> <<>>]
                 ELSE LET n    == CHOOSE x \in lens : \A y \in lens : y <= x
                          rest == RegexMatchFrom(regex, t + 1, path, p + n)
                      IN  [ok |-> TRUE,
                           caps |-> <<SubSeq(path, p, p + n - 1)>> \o rest.caps]

\* extractParams: the names after ":" in routePath.match(/:\w+/g), each bound
\* to the capture of the same index
RECURSIVE ExtractUpTo(_, _, _)
ExtractUpTo(keys, caps, n) ==
  IF n = 0
    THEN NoParams
    ELSE SetParam(ExtractUpTo(keys, caps, n - 1), keys[n].name, caps[n])

ExtractParams(routePath, caps) ==
  LET keys == SelectSeq(BuildRouteRegex(routePath), LAMBDA tok : tok.group) IN
  ExtractUpTo(keys, caps, Len(keys))

\* the routes object of one method: entries in key order, each with its
\* handler and isDynamic
RegexEntry(path, handler) ==
  [key |-> path, value |-> [handler |-> handler, isDynamic |-> IsDynamicRoute(path)]]

\* this.routes.GET[path] = { handler, isDynamic }
RegexSet(entries, path, handler) ==
  IF \E k \in 1..Len(entries) : entries[k].key = path
    THEN [k \in 1..Len(entries) |->
            IF entries[k].key = path THEN RegexEntry(path, handler) ELSE entries[k]]
    ELSE Append(entries, RegexEntry(path, handler))

\* whether the entry takes the path, and with which params
RegexTakes(entry, path) ==
  IF ~entry.value.isDynamic
    THEN [ok |-> entry.key = path, params |-> NoParams]
    ELSE LET m == RegexMatchFrom(BuildRouteRegex(entry.key), 1, path, 1) IN
         [ok |-> m.ok,
          params |-> IF m.ok THEN ExtractParams(entry.key, m.caps) ELSE NoParams]

\* matchRoute(path, method) of the map-and-regex dispatcher: the first entry,
\* in key order, that takes the path
RegexMatchRoute(entries, path) ==
  LET hits == {k \in 1..Len(entries) : RegexTakes(entries[k], path).ok} IN
  IF hits = {}
    THEN NoMatch
    ELSE LET k == CHOOSE x \in hits : \A y \in hits : x <= y IN
         [kind |-> "match", handler |-> entries[k].value.handler,
          params |-> RegexTakes(entries[k], path).params]

\* the routes object of the method after the get/post calls of the log
RECURSIVE RegexRoutes(_, _, _)
RegexRoutes(log, method, n) ==
  IF n = 0
    THEN <<>>
    ELSE LET before == RegexRoutes(log, method, n - 1) IN
         IF log[n].method = method
           THEN RegexSet(before, log[n].path, log[n].handler)
           ELSE before

\* ------------------------------------------------------------------- inputs

\* bounds of the model: handler functions created, middleware functions
\* created, registerBlueprint calls, static mappings
MaxRoutes == 2

MaxMw == 2

MaxMerges == 2

MaxStatic == 2

\* handler functions, in the order the application creates them
HandlerNames == <<"h1", "h2", "h3", "h4", "h5", "h6">>

\* (method, path) given to get/post on the dispatcher
RouteInputs ==
  ({"GET"} \X { <<"/">>,
                <<"/", "a">>,
                <<"/", "a", "/", "b">>,
                <<"/", "a", "/", ":", "i">>,
                <<"/", "a", "/", ":", "n", "/", "b">>,
                <<"a", "/">>,
                <<"/", "/">> })
  \cup
  ({"POST"} \X { <<"/", "a">>,
                 <<"/", "a", "/", ":", "i">> })

\* the blueprints the application constructs, and their prefixes
BlueprintIds == {"A", "B"}

\* a blueprint mounted at the root
RootBlueprint == "R"

Blueprints == BlueprintIds \cup {RootBlueprint}

Prefix(bp) ==
  CASE bp = "A" -> <<"/", "a">>
    [] bp = "B" -> <<"/", "b">>
    [] bp = RootBlueprint -> Slash

\* (method, path) given to get/post on a blueprint
BlueprintInputs ==
  ({"GET"} \X { <<"/", ":", "i">>, <<"/", ":", "n">>, <<"/", "b">> })
  \cup
  ({"POST"} \X { <<"/", ":", "i", "/", "b">> })

\* middleware functions: what each does when invoked
MiddlewareFns == {"pass", "blockVoid", "blockResponse"}

\* async middlewares: "passAsync" calls next() after a suspension,
\* "nextThenAsync" calls next() and then suspends, "rejectAsync" fails after
\* a suspension
AsyncFns == {"passAsync", "nextThenAsync", "rejectAsync", "blockAsync", "hangAsync"}

\* "hangAsync" returns new Promise(() => {}), which never settles
NeverSettles(fn) == fn = "hangAsync"

\* whether the middleware calls next() before it returns; "catchNext" is
\* try { next() } catch (err) { return new Response(..., { status: 500 }) },
\* "setParams" is req.params = { u: "x" }; next()
\* "nextTwice" is next(); next()
OwnCalls(fn) ==
  CASE fn = "nextTwice" -> 2
    [] fn \in {"pass", "nextThenAsync", "catchNext", "setParams", "againLater"} -> 1
    [] OTHER -> 0

\* const next = () => { nextCalled = true; }
CallNext(flag) == TRUE

\* let nextCalled = false, then n calls of next
RECURSIVE CallNextTimes(_, _)
CallNextTimes(flag, n) ==
  IF n = 0 THEN flag ELSE CallNextTimes(CallNext(flag), n - 1)

CallsNextBeforeReturn(fn) == CallNextTimes(FALSE, OwnCalls(fn))

\* whether the call of the middleware throws
Throws(fn) == fn = "throw"

\* whether the promise the middleware returned rejects
Rejects(fn) == fn = "rejectAsync"

\* whether an async middleware calls next() before its promise settles
CallsNextBeforeSettle(fn) == fn = "passAsync"

\* a result that is not awaited although it is a promise
IsPromise_Never(val) == FALSE

\* isPromise(val): val && typeof val.then === "function"
IsPromise(val) == val = "promise"

\* what the middleware returns: nothing, a Response of its own, or a promise
Returns(fn) ==
  CASE fn = "blockResponse" -> "response"
    [] fn \in AsyncFns -> "promise"
    [] OTHER -> "undefined"

\* whether the middleware signals continue by the time it has completed
CallsNext(fn) == CallsNextBeforeReturn(fn) \/ CallsNextBeforeSettle(fn)

\* requests: the method (before toUpperCase) and the pathname of
\* new URL(req.url), which always starts with "/"
Requests ==
  ({"GET"} \X { <<"/">>,
                <<"/", "a">>,
                <<"/", "a", "/", "b">>,
                <<"/", "a", "/", "1">>,
                <<"/", "a", "/", ":">>,
                <<"/", "a", "/", "1", "/", "b">>,
                <<"/", "b", "/", "1">>,
                <<"/", "1">> })
  \cup
  ({"POST"} \X { <<"/", "a">>, <<"/", "a", "/", "1">>, <<"/", "a", "/", "1", "/", "b">> })
  \cup
  ({"patch"} \X { <<"/", "a">> })

\* String.prototype.toUpperCase on the method names used
ToUpperCase(m) == IF m = "patch" THEN "PATCH" ELSE m

\* static(route, directoryPath) inputs
StaticInputs == { <<"/", "a">>, <<"/">> }

\* -------------------------------------------------------------------- state

VARIABLES
  middlewares,   \* Bunwork.middlewares
  routes,        \* Bunwork.routes: method -> route tree
  staticRoutes,  \* Bunwork.staticRoutes, as Object.entries lists it
  blueprints,    \* the Blueprint objects: prefix, routes (per method, in key order),
                 \* middlewares, and the get/post calls made on each
  hcount,        \* handler functions created so far
  mcount,        \* middleware functions created so far
  regLog,        \* the addRoute calls that completed on the dispatcher, in order
  mwLog,         \* the middleware(fn) and registerBlueprint calls, in order, each
                 \* with the middleware list it was given
  mergeLog,      \* the blueprints passed to registerBlueprint, in order
  thrown,        \* the addRoute calls that threw, in order
  pc,            \* where handle() of the request in flight stands
  req,           \* the request: method, pathname, params
  mwi,           \* runMiddlewares: index of the middleware of this iteration
  nextCalled,    \* runMiddlewares: nextCalled of this iteration
  invoked,       \* what handle() has invoked for this request, in order
  running,       \* the invoked middlewares (by position) whose promise has not
                 \* settled yet
  raised,        \* the error a middleware or the handler raised for this request
  resp,          \* what handle() settled with
  other          \* the locals of a second handle() call, suspended at an await
                 \* (or not begun, or over) while the call above runs

vars == <<middlewares, routes, staticRoutes, blueprints, hcount, mcount,
          regLog, mwLog, mergeLog, thrown, pc, req, mwi, nextCalled, invoked,
          running, raised, resp, other>>

regVars == <<middlewares, routes, staticRoutes, blueprints, hcount, mcount,
             regLog, mwLog, mergeLog, thrown>>

reqVars == <<pc, req, mwi, nextCalled, invoked, running, raised, resp, other>>

\* the params field of the request: absent until handle() assigns it
NoParamsField == [set |-> FALSE, map |-> NoParams]

ParamsField(params) == [set |-> TRUE, map |-> params]

NoRequest == [method |-> "", path |-> Empty, params |-> NoParamsField]

NoResponse == [kind |-> "pending"]

Response(status, body) == [kind |-> "response", status |-> status, body |-> body]

Rejected(error) == [kind |-> "rejected", error |-> error]

NoError == "none"

\* an error caught and turned into a response
Propagate_Caught(error) == Response(500, "Internal Server Error")

\* an error raised inside the async function handle(), which has no
\* try/catch around its middleware and handler calls: its promise rejects
Propagate(error) == Rejected(error)

\* new Blueprint(prefix)
NewBlueprint(prefix) ==
  [prefix |-> prefix, routes |-> [m \in Methods |-> <<>>], middlewares |-> <<>>,
   calls |-> <<>>]

\* the locals of a handle() call that has not begun
NoCall ==
  [pc |-> "idle", req |-> NoRequest, mwi |-> 0, nextCalled |-> FALSE,
   invoked |-> <<>>, running |-> {}, raised |-> NoError, resp |-> NoResponse]

Init ==
  /\ other = NoCall
  /\ middlewares = <<>>
  /\ routes = CreateRouteTree
  /\ staticRoutes = <<>>
  /\ blueprints = [b \in Blueprints |-> NewBlueprint(Prefix(b))]
  /\ hcount = 0
  /\ mcount = 0
  /\ regLog = <<>>
  /\ mwLog = <<>>
  /\ mergeLog = <<>>
  /\ thrown = <<>>
  /\ pc = "idle"
  /\ req = NoRequest
  /\ mwi = 0
  /\ nextCalled = FALSE
  /\ invoked = <<>>
  /\ running = {}
  /\ raised = NoError
  /\ resp = NoResponse

\* registration calls are made while no request is being handled
Quiet == pc = "idle" /\ other.pc = "idle"

Reg(via, method, path, handler) ==
  [via |-> via, method |-> method, path |-> path, handler |-> handler]

\* unshift in place of push
PushAll_Front(list, items) == items \o list

\* Array.prototype.push(...items)
PushAll(list, items) == list \o items

\* ------------------------------------------------------------- registration

\* middleware(fn)
Middleware(fn) ==
  /\ Quiet
  /\ mcount < MaxMw
  /\ mcount' = mcount + 1
  /\ middlewares' = PushAll(middlewares, <<fn>>)
  /\ mwLog' = Append(mwLog, [by |-> "app", fns |-> <<fn>>])
  /\ UNCHANGED <<routes, staticRoutes, blueprints, hcount, regLog, mergeLog,
                 thrown, reqVars>>

\* get(path, handler) and post(path, handler): addRoute(method, path, handler)
Route(method, path) ==
  LET handler == HandlerNames[hcount + 1] IN
  /\ Quiet
  /\ hcount < MaxRoutes
  /\ hcount' = hcount + 1
  /\ IF AddRouteThrows(path)
       THEN /\ thrown' = Append(thrown, Reg("app", method, path, handler))
            /\ UNCHANGED <<routes, regLog>>
       ELSE /\ routes' = [routes EXCEPT ![method] = AddRoute(@, path, handler)]
            /\ regLog' = Append(regLog, Reg("app", method, path, handler))
            /\ UNCHANGED thrown
  /\ UNCHANGED <<middlewares, staticRoutes, blueprints, mcount, mwLog, mergeLog, reqVars>>

Get(path) == Route("GET", path)

Post(path) == Route("POST", path)

\* obj[key] = value on a plain object whose keys are listed in insertion order
\* (the keys used here are never integer-like, so insertion order is key order)
ObjectSet(entries, key, value) ==
  IF \E k \in 1..Len(entries) : entries[k].key = key
    THEN [k \in 1..Len(entries) |->
            IF entries[k].key = key
              THEN [key |-> key, value |-> value]
              ELSE entries[k]]
    ELSE Append(entries, [key |-> key, value |-> value])

\* static(route, directoryPath)
Static(route, dir) ==
  /\ Quiet
  /\ Len(staticRoutes) < MaxStatic
  /\ staticRoutes' = ObjectSet(staticRoutes, route, dir)
  /\ UNCHANGED <<middlewares, routes, blueprints, hcount, mcount,
                 regLog, mwLog, mergeLog, thrown, reqVars>>

\* a blueprint whose middleware list the dispatcher holds by reference once
\* it is merged
BlueprintMiddleware_Shared(bp, fn) ==
  /\ Quiet
  /\ mcount < MaxMw
  /\ mcount' = mcount + 1
  /\ blueprints' = [blueprints EXCEPT ![bp].middlewares = Append(@, fn)]
  /\ middlewares' = IF \E k \in 1..Len(mergeLog) : mergeLog[k] = bp
                       THEN Append(middlewares, fn)
                       ELSE middlewares
  /\ UNCHANGED <<routes, staticRoutes, hcount,
                 regLog, mwLog, mergeLog, thrown, reqVars>>

\* Blueprint.middleware(fn)
BlueprintMiddleware(bp, fn) ==
  /\ Quiet
  /\ mcount < MaxMw
  /\ mcount' = mcount + 1
  /\ blueprints' = [blueprints EXCEPT ![bp].middlewares = Append(@, fn)]
  /\ UNCHANGED <<middlewares, routes, staticRoutes, hcount,
                 regLog, mwLog, mergeLog, thrown, reqVars>>

\* a blueprint that stores its routes without the prefix
PrefixedPath_NoPrefix(prefix, path) == path

\* `${this.prefix}${path}`
PrefixedPath(prefix, path) == prefix \o path

\* Blueprint.get(path, handler) and Blueprint.post(path, handler)
BlueprintRoute(bp, method, path) ==
  LET handler == HandlerNames[hcount + 1]
      key     == PrefixedPath(blueprints[bp].prefix, path)
  IN
  /\ Quiet
  /\ hcount < MaxRoutes
  /\ hcount' = hcount + 1
  /\ blueprints' = [blueprints EXCEPT
       ![bp].routes[method] = ObjectSet(@, key, handler),
       ![bp].calls = Append(@, Reg(bp, method, path, handler))]
  /\ UNCHANGED <<middlewares, routes, staticRoutes, mcount,
                 regLog, mwLog, mergeLog, thrown, reqVars>>

BlueprintGet(bp, path) == BlueprintRoute(bp, "GET", path)

BlueprintPost(bp, path) == BlueprintRoute(bp, "POST", path)

\* blueprint.getRoutes() as the nested for-in loops of registerBlueprint visit
\* it: the GET entries, then the POST entries
RoutesInOrder(bp, bproutes) ==
  [k \in 1..Len(bproutes["GET"]) |->
     Reg(bp, "GET", bproutes["GET"][k].key, bproutes["GET"][k].value)]
  \o
  [k \in 1..Len(bproutes["POST"]) |->
     Reg(bp, "POST", bproutes["POST"][k].key, bproutes["POST"][k].value)]

\* the addRoute calls of registerBlueprint from the i-th on; a throwing
\* addRoute ends the loop
RECURSIVE MergeLoop(_, _, _)
MergeLoop(rts, regs, i) ==
  IF i > Len(regs)
    THEN [routes |-> rts, done |-> regs]
    ELSE IF AddRouteThrows(regs[i].path)
      THEN [routes |-> rts, done |-> SubSeq(regs, 1, i - 1)]
      ELSE MergeLoop(
             [rts EXCEPT ![regs[i].method] = AddRoute(@, regs[i].path, regs[i].handler)],
             regs, i + 1)

\* registerBlueprint(blueprint)
RegisterBlueprint(bp) ==
  LET regs   == RoutesInOrder(bp, blueprints[bp].routes)
      merged == MergeLoop(routes, regs, 1)
  IN
  /\ Quiet
  /\ Len(mergeLog) < MaxMerges
  /\ middlewares' = PushAll(middlewares, blueprints[bp].middlewares)
  /\ routes' = merged.routes
  /\ regLog' = regLog \o merged.done
  /\ thrown' = IF Len(merged.done) < Len(regs)
                 THEN Append(thrown, regs[Len(merged.done) + 1])
                 ELSE thrown
  /\ mwLog' = Append(mwLog, [by |-> bp, fns |-> blueprints[bp].middlewares])
  /\ mergeLog' = Append(mergeLog, bp)
  /\ UNCHANGED <<staticRoutes, blueprints, hcount, mcount, reqVars>>

\* ------------------------------------------------------------------- handle

BlockedResponse == Response(403, "Middleware blocked the request")

NotFoundResponse == Response(404, "Not Found")

FileNotFoundResponse == Response(404, "File Not Found")

FileResponse == Response(200, "file bytes")

\* what a handler function returns: each its own body, h2 a status of its own
HandlerResponse(h) == Response(IF h = "h2" THEN 201 ELSE 200, h)

Invocation(what, name) == [what |-> what, name |-> name]

\* a dispatcher that runs the chain only for requests that match something
Handle_SkipChain(method, path) ==
  /\ pc = "idle"
  /\ pc' = "middlewares"
  /\ req' = [method |-> method, path |-> path, params |-> NoParamsField]
  /\ mwi' = IF /\ MatchRoute(routes, ToUpperCase(method), path).kind = "null"
               /\ \A k \in 1..Len(staticRoutes) : ~StartsWith(path, staticRoutes[k].key)
              THEN Len(middlewares) + 1
              ELSE 1
  /\ nextCalled' = FALSE
  /\ invoked' = <<>>
  /\ running' = {}
  /\ raised' = NoError
  /\ resp' = NoResponse
  /\ UNCHANGED <<regVars, other, other>>

\* a request arrives: handle(req) is called
Handle(method, path) ==
  /\ pc = "idle"
  /\ pc' = "middlewares"
  /\ req' = [method |-> method, path |-> path, params |-> NoParamsField]
  /\ mwi' = 1
  /\ nextCalled' = FALSE
  /\ invoked' = <<>>
  /\ running' = {}
  /\ raised' = NoError
  /\ resp' = NoResponse
  /\ UNCHANGED <<regVars, other, other>>

\* a loop that does not look at nextCalled
Verdict_AlwaysContinue(called) == "continue"

\* if (!nextCalled) return new Response("Middleware blocked the request", ...)
Verdict(called) == IF called THEN "continue" ELSE "blocked"

\* who gave each middleware of the chain: "app" or the blueprint merged
RECURSIVE ChainOwners(_)
ChainOwners(log) ==
  IF log = <<>>
    THEN <<>>
    ELSE [i \in 1..Len(Head(log).fns) |-> Head(log).by] \o ChainOwners(Tail(log))

\* a chain in which a blueprint's middleware is passed over, as if it had
\* continued, for a request outside the blueprint's prefix
RunMiddleware_Scoped ==
  LET owner == ChainOwners(mwLog)[mwi] IN
  /\ pc = "middlewares"
  /\ mwi <= Len(middlewares)
  /\ IF owner # "app" /\ ~StartsWith(req.path, Prefix(owner))
       THEN /\ mwi' = mwi + 1
            /\ UNCHANGED <<pc, req, nextCalled, invoked, running, raised, resp>>
       ELSE LET fn     == middlewares[mwi]
                called == CallsNextBeforeReturn(fn)
                result == Returns(fn)
            IN
            /\ invoked' = Append(invoked, Invocation("middleware", fn))
            /\ nextCalled' = called
            /\ running' = IF result = "promise"
                            THEN running \cup {Len(invoked) + 1}
                            ELSE running
            /\ IF IsPromise(result)
                 THEN /\ pc' = "awaitMiddleware"
                      /\ UNCHANGED <<mwi, resp>>
                 ELSE IF Verdict(called) = "continue"
                   THEN /\ mwi' = mwi + 1
                        /\ UNCHANGED <<pc, resp>>
                   ELSE /\ pc' = "done"
                        /\ resp' = BlockedResponse
                        /\ UNCHANGED mwi
            /\ UNCHANGED <<req, raised>>
  /\ UNCHANGED <<regVars, other, other>>

\* what the middleware leaves on the request object it was handed: IRequest
\* has an optional params field, which "setParams" fills in
Decorate(fn, request) ==
  IF fn = "setParams"
    THEN [request EXCEPT !.params = ParamsField(SetParam(NoParams, <<"u">>, <<"x">>))]
    ELSE request

\* one iteration of the loop of runMiddlewares, up to `await result` when the
\* middleware returned a promise
RunMiddleware ==
  LET fn     == middlewares[mwi]
      called == CallsNextBeforeReturn(fn)
      result == Returns(fn)
  IN
  /\ pc = "middlewares"
  /\ mwi <= Len(middlewares)
  /\ invoked' = Append(invoked, Invocation("middleware", fn))
  /\ IF Throws(fn)
       THEN /\ pc' = "done"
            /\ raised' = "middleware error"
            /\ resp' = Propagate(raised')
            /\ nextCalled' = FALSE
            /\ UNCHANGED <<mwi, running>>
       ELSE /\ nextCalled' = called
            /\ UNCHANGED raised
            /\ running' = IF result = "promise"
                            THEN running \cup {Len(invoked) + 1}
                            ELSE running
            /\ IF IsPromise(result)
                 THEN /\ pc' = "awaitMiddleware"
                      /\ UNCHANGED <<mwi, resp>>
                 ELSE IF Verdict(called) = "continue"
                   THEN /\ mwi' = mwi + 1
                        /\ UNCHANGED <<pc, resp>>
                   ELSE /\ pc' = "done"
                        /\ resp' = BlockedResponse
                        /\ UNCHANGED mwi
  /\ req' = Decorate(fn, req)
  /\ UNCHANGED <<regVars, other, other>>

\* a loop that awaits the promise but keeps the value nextCalled had when the
\* middleware returned
MiddlewareSettles_VerdictAtReturn ==
  LET fn     == middlewares[mwi]
      called == nextCalled
  IN
  /\ pc = "awaitMiddleware"
  /\ running' = running \ {Len(invoked)}
  /\ IF Rejects(fn)
       THEN /\ pc' = "done"
            /\ raised' = "middleware error"
            /\ resp' = Propagate(raised')
            /\ UNCHANGED <<mwi, nextCalled>>
       ELSE /\ nextCalled' = called
            /\ UNCHANGED raised
            /\ IF Verdict(called) = "continue"
                 THEN /\ pc' = "middlewares"
                      /\ mwi' = mwi + 1
                      /\ UNCHANGED resp
                 ELSE /\ pc' = "done"
                      /\ resp' = BlockedResponse
                      /\ UNCHANGED mwi
  /\ UNCHANGED <<regVars, other, req, invoked>>

\* middlewares that keep their next and call it from a timer after they
\* have returned: "nextLater" without having called it before, "againLater"
\* having called it once
LateFns == {"nextLater", "againLater"}

\* one nextCalled for the whole loop, which every next sets
LateNext_SharedFlag(k) ==
  /\ pc \in {"middlewares", "awaitMiddleware", "done"}
  /\ k \in 1..Len(invoked)
  /\ invoked[k].what = "middleware"
  /\ invoked[k].name \in LateFns
  /\ nextCalled' = CallNext(nextCalled)
  /\ UNCHANGED <<regVars, other, pc, req, mwi, invoked, running, raised, resp>>

\* the next of the k-th middleware invoked is called after that middleware
\* has returned: it sets the nextCalled of its own iteration, which the state
\* holds only while no later iteration has begun
LateNext(k) ==
  /\ pc \in {"middlewares", "awaitMiddleware", "done"}
  /\ k \in 1..Len(invoked)
  /\ invoked[k].what = "middleware"
  /\ invoked[k].name \in LateFns
  /\ nextCalled' = IF k = mwi THEN CallNext(nextCalled) ELSE nextCalled
  /\ UNCHANGED <<regVars, other, pc, req, mwi, invoked, running, raised, resp>>

\* a loop that gives up on a promise that does not settle and goes on
MiddlewareSettles_TimesOut ==
  LET fn     == middlewares[mwi]
      called == nextCalled \/ CallsNextBeforeSettle(fn)
  IN
  /\ pc = "awaitMiddleware"
  /\ running' = running \ {Len(invoked)}
  /\ IF Rejects(fn)
       THEN /\ pc' = "done"
            /\ raised' = "middleware error"
            /\ resp' = Propagate(raised')
            /\ UNCHANGED <<mwi, nextCalled>>
       ELSE /\ nextCalled' = called
            /\ UNCHANGED raised
            /\ IF Verdict(called) = "continue"
                 THEN /\ pc' = "middlewares"
                      /\ mwi' = mwi + 1
                      /\ UNCHANGED resp
                 ELSE /\ pc' = "done"
                      /\ resp' = BlockedResponse
                      /\ UNCHANGED mwi
  /\ UNCHANGED <<regVars, other, req, invoked>>

\* the middleware's promise settles; the loop goes on from `if (!nextCalled)`
MiddlewareSettles ==
  LET fn     == middlewares[mwi]
      called == nextCalled \/ CallsNextBeforeSettle(fn)
  IN
  /\ pc = "awaitMiddleware"
  /\ ~NeverSettles(fn)
  /\ running' = running \ {Len(invoked)}
  /\ IF Rejects(fn)
       THEN /\ pc' = "done"
            /\ raised' = "middleware error"
            /\ resp' = Propagate(raised')
            /\ UNCHANGED <<mwi, nextCalled>>
       ELSE /\ nextCalled' = called
            /\ UNCHANGED raised
            /\ IF Verdict(called) = "continue"
                 THEN /\ pc' = "middlewares"
                      /\ mwi' = mwi + 1
                      /\ UNCHANGED resp
                 ELSE /\ pc' = "done"
                      /\ resp' = BlockedResponse
                      /\ UNCHANGED mwi
  /\ UNCHANGED <<regVars, other, req, invoked>>

\* the static mappings whose route the pathname starts with, in entries order
StaticHits(path) ==
  {k \in 1..Len(staticRoutes) : StartsWith(path, staticRoutes[k].key)}

\* the first mapping, in entries order, whose route the pathname starts with
FirstStaticHit(path) ==
  CHOOSE k \in StaticHits(path) : \A j \in StaticHits(path) : k <= j

\* a dispatcher that runs the static loop before matchRoute
Dispatch_StaticFirst ==
  LET found == MatchRoute(routes, ToUpperCase(req.method), req.path) IN
  /\ pc = "middlewares"
  /\ mwi > Len(middlewares)
  /\ CASE StaticHits(req.path) # {} ->
            /\ invoked' = Append(invoked,
                 Invocation("file", staticRoutes[FirstStaticHit(req.path)].value))
            /\ pc' = "awaitFile"
            /\ UNCHANGED <<req, resp>>
       [] StaticHits(req.path) = {} /\ found.kind = "throw" ->
            /\ pc' = "done"
            /\ resp' = Rejected("TypeError")
            /\ UNCHANGED <<req, invoked>>
       [] StaticHits(req.path) = {} /\ found.kind = "match" ->
            /\ req' = [req EXCEPT !.params = ParamsField(found.params)]
            /\ invoked' = Append(invoked, Invocation("handler", found.handler))
            /\ pc' = "awaitHandler"
            /\ UNCHANGED resp
       [] StaticHits(req.path) = {} /\ found.kind = "null" ->
            /\ pc' = "done"
            /\ resp' = NotFoundResponse
            /\ UNCHANGED <<req, invoked>>
  /\ UNCHANGED <<regVars, other, mwi, nextCalled, running, raised>>

\* runMiddlewares returned null: matchRoute, then the handler call or the
\* static loop
Dispatch ==
  LET found == MatchRoute(routes, ToUpperCase(req.method), req.path) IN
  /\ pc = "middlewares"
  /\ mwi > Len(middlewares)
  /\ CASE found.kind = "throw" ->
            /\ pc' = "done"
            /\ resp' = Rejected("TypeError")
            /\ UNCHANGED <<req, invoked>>
       [] found.kind = "match" ->
            /\ req' = [req EXCEPT !.params = ParamsField(found.params)]
            /\ invoked' = Append(invoked, Invocation("handler", found.handler))
            /\ pc' = "awaitHandler"
            /\ UNCHANGED resp
       [] found.kind = "null" /\ StaticHits(req.path) # {} ->
            /\ invoked' = Append(invoked,
                 Invocation("file", staticRoutes[FirstStaticHit(req.path)].value))
            /\ pc' = "awaitFile"
            /\ UNCHANGED <<req, resp>>
       [] found.kind = "null" /\ StaticHits(req.path) = {} ->
            /\ pc' = "done"
            /\ resp' = NotFoundResponse
            /\ UNCHANGED <<req, invoked>>
  /\ UNCHANGED <<regVars, other, mwi, nextCalled, running, raised>>

\* return await routeHandler.handler(req)
HandlerReturns ==
  /\ pc = "awaitHandler"
  /\ pc' = "done"
  /\ resp' = HandlerResponse(invoked[Len(invoked)].name)
  /\ UNCHANGED <<regVars, other, req, mwi, nextCalled, invoked, running, raised>>

\* the handlers of the application of SpecHang that return a promise that
\* never settles
HangingHandlers == {"h1"}

\* the handler's promise settles, if it ever does
HandlerSettles ==
  /\ pc = "awaitHandler"
  /\ invoked[Len(invoked)].name \notin HangingHandlers
  /\ HandlerReturns

\* a dispatcher that calls the handler a second time when the first call failed
HandlerThrows_Retry ==
  /\ pc = "awaitHandler"
  /\ IF Len(SelectSeq(invoked, LAMBDA v : v.what = "handler")) = 1
       THEN /\ invoked' = Append(invoked, invoked[Len(invoked)])
            /\ UNCHANGED <<pc, raised, resp>>
       ELSE /\ pc' = "done"
            /\ raised' = "handler error"
            /\ resp' = Propagate(raised')
            /\ UNCHANGED invoked
  /\ UNCHANGED <<regVars, other, req, mwi, nextCalled, running>>

\* routeHandler.handler(req) throws, or the promise it returned rejects
HandlerThrows ==
  /\ pc = "awaitHandler"
  /\ pc' = "done"
  /\ raised' = "handler error"
  /\ resp' = Propagate(raised')
  /\ UNCHANGED <<regVars, other, req, mwi, nextCalled, invoked, running>>

\* a static loop that goes on to the next mapping when the read failed
FileRead_TriesNext(ok) ==
  LET reads == Len(SelectSeq(invoked, LAMBDA v : v.what = "file"))
      hits  == StaticHits(req.path)
  IN
  /\ pc = "awaitFile"
  /\ IF ~ok /\ reads < Cardinality(hits)
       THEN /\ invoked' = Append(invoked,
                 Invocation("file",
                   staticRoutes[CHOOSE k \in hits :
                     Cardinality({j \in hits : j < k}) = reads].value))
            /\ UNCHANGED <<pc, resp>>
       ELSE /\ pc' = "done"
            /\ resp' = IF ok THEN FileResponse ELSE FileNotFoundResponse
            /\ UNCHANGED invoked
  /\ UNCHANGED <<regVars, other, req, mwi, nextCalled, running, raised>>

\* await file(filePath).arrayBuffer(): the read succeeds or fails
FileRead(ok) ==
  /\ pc = "awaitFile"
  /\ pc' = "done"
  /\ resp' = IF ok THEN FileResponse ELSE FileNotFoundResponse
  /\ UNCHANGED <<regVars, other, req, mwi, nextCalled, invoked, running, raised>>

\* the locals of the handle() call that is running
Locals ==
  [pc |-> pc, req |-> req, mwi |-> mwi, nextCalled |-> nextCalled,
   invoked |-> invoked, running |-> running, raised |-> raised, resp |-> resp]

\* the places where a handle() call gives up the thread: not begun or over,
\* at `await result`, at `await runMiddlewares()` once the loop has ended, and
\* while the handler's or the file's promise is pending
AtSuspension ==
  \/ pc \in {"idle", "awaitMiddleware", "awaitHandler", "awaitFile", "done"}
  \/ pc = "middlewares" /\ mwi > Len(middlewares)

\* a dispatcher whose nextCalled is a field of the dispatcher
Switch_SharedFlag ==
  /\ AtSuspension
  /\ Locals # other
  /\ other' = Locals
  /\ pc' = other.pc
  /\ req' = other.req
  /\ mwi' = other.mwi
  /\ nextCalled' = nextCalled
  /\ invoked' = other.invoked
  /\ running' = other.running
  /\ raised' = other.raised
  /\ resp' = other.resp
  /\ UNCHANGED regVars

\* the event loop runs the other handle() call: each call has its own req,
\* its own closure runMiddlewares with its own loop variables, and its own
\* result of matchRoute
Switch ==
  /\ AtSuspension
  /\ Locals # other
  /\ other' = Locals
  /\ pc' = other.pc
  /\ req' = other.req
  /\ mwi' = other.mwi
  /\ nextCalled' = other.nextCalled
  /\ invoked' = other.invoked
  /\ running' = other.running
  /\ raised' = other.raised
  /\ resp' = other.resp
  /\ UNCHANGED regVars

\* Bun.serve writes the response back (or reports the failure); the request
\* is over
Respond ==
  /\ pc = "done"
  /\ pc' = "idle"
  /\ req' = NoRequest
  /\ mwi' = 0
  /\ nextCalled' = FALSE
  /\ invoked' = <<>>
  /\ running' = {}
  /\ raised' = NoError
  /\ resp' = NoResponse
  /\ UNCHANGED <<regVars, other, other>>

\* ------------------------------------------------------------ specification

HandleSteps ==
  \/ \E r \in Requests : Handle(r[1], r[2])
  \/ RunMiddleware
  \/ Dispatch
  \/ HandlerReturns
  \/ \E ok \in BOOLEAN : FileRead(ok)
  \/ Respond

\* the dispatcher alone: middlewares, routes and static mappings
Next ==
  \/ \E fn \in MiddlewareFns : Middleware(fn)
  \/ \E r \in RouteInputs : Route(r[1], r[2])
  \/ \E route \in StaticInputs : Static(route, "./public")
  \/ HandleSteps

Spec == Init /\ [][Next]_vars

\* blueprints' routes merged into the dispatcher, beside direct routes
BlueprintRequests ==
  ({"GET"} \X { <<"/", "a">>,
                <<"/", "1">>,
                <<"/", "a", "/", "1">>,
                <<"/", "a", "/", "b">>,
                <<"/", "a", "/", ":">>,
                <<"/", "b", "/", "1">>,
                <<"/", "a", "/", "1", "/", "b">> })
  \cup
  ({"POST"} \X { <<"/", "a", "/", "1">>, <<"/", "a", "/", "1", "/", "b">> })

DirectInputs ==
  {"GET"} \X { <<"/", "a", "/", ":", "i">>, <<"/", "a", "/", "b">> }

NextBlueprints ==
  \/ \E r \in DirectInputs : Route(r[1], r[2])
  \/ \E bp \in BlueprintIds, r \in BlueprintInputs : BlueprintRoute(bp, r[1], r[2])
  \/ \E bp \in BlueprintIds : RegisterBlueprint(bp)
  \/ \E r \in BlueprintRequests : Handle(r[1], r[2])
  \/ Dispatch
  \/ HandlerReturns
  \/ Respond

SpecBlueprints == Init /\ [][NextBlueprints]_vars

\* the middleware chain: the dispatcher's own middlewares and those of merged
\* blueprints
ChainFns == {"pass", "blockResponse", "passAsync", "nextThenAsync"}

ChainRequests == {"GET"} \X { <<"/">>, <<"/", "a", "/", "1">> }

NextChain ==
  \/ \E fn \in ChainFns : Middleware(fn)
  \/ \E bp \in BlueprintIds, fn \in ChainFns : BlueprintMiddleware(bp, fn)
  \/ \E bp \in BlueprintIds : RegisterBlueprint(bp)
  \/ \E r \in ChainRequests : Handle(r[1], r[2])
  \/ RunMiddleware
  \/ MiddlewareSettles
  \/ Dispatch
  \/ Respond

SpecChain == Init /\ [][NextChain]_vars

\* middlewares and handlers that fail, and the error-handling middleware of
\* the README
ErrorFns == {"pass", "throw", "rejectAsync", "catchNext", "blockVoid"}

ErrorInputs == {"GET"} \X { <<"/", "a">>, <<"/", "a", "/", ":", "i">> }

ErrorRequests == {"GET"} \X { <<"/", "a">>, <<"/", "b">> }

NextErrors ==
  \/ \E fn \in ErrorFns : Middleware(fn)
  \/ \E r \in ErrorInputs : Route(r[1], r[2])
  \/ \E route \in StaticInputs : Static(route, "./public")
  \/ \E r \in ErrorRequests : Handle(r[1], r[2])
  \/ RunMiddleware
  \/ MiddlewareSettles
  \/ Dispatch
  \/ HandlerReturns
  \/ HandlerThrows
  \/ \E ok \in BOOLEAN : FileRead(ok)
  \/ Respond

SpecErrors == Init /\ [][NextErrors]_vars

\* paths as they are written: the root, trailing and repeated slashes, a
\* top-level parameter, the empty string
PathInputs ==
  {"GET"} \X { <<"/">>,
               <<"/", "a", "/", "b">>,
               <<"/", "a", "/", "b", "/">>,
               <<"/", "a", "/", ":", "i">>,
               <<"/", ":", "i">>,
               <<"/", "/">>,
               Empty }

PathRequests ==
  {"GET"} \X { <<"/">>,
               <<"/", "/">>,
               <<"/", "1">>,
               <<"/", "a", "/", "b">>,
               <<"/", "a", "/", "b", "/">>,
               <<"/", "/", "a", "/", "/", "b">>,
               <<"/", "a", "/", "1">>,
               <<"/", "a", "/", "1", "/">> }

NextPaths ==
  \/ \E r \in PathInputs : Route(r[1], r[2])
  \/ \E r \in PathRequests : Handle(r[1], r[2])
  \/ Dispatch
  \/ HandlerReturns
  \/ Respond

SpecPaths == Init /\ [][NextPaths]_vars

\* middlewares that write on the request before the handler sees it
ParamsFns == {"pass", "setParams"}

ParamsInputs == {"GET"} \X { <<"/", "a">>, <<"/", "a", "/", ":", "i">> }

ParamsRequests == {"GET"} \X { <<"/", "a">>, <<"/", "a", "/", "1">>, <<"/", "b">> }

NextParams ==
  \/ \E fn \in ParamsFns : Middleware(fn)
  \/ \E r \in ParamsInputs : Route(r[1], r[2])
  \/ \E r \in ParamsRequests : Handle(r[1], r[2])
  \/ RunMiddleware
  \/ Dispatch
  \/ HandlerReturns
  \/ Respond

SpecParams == Init /\ [][NextParams]_vars

\* blueprints that are filled before and after they are merged, one of them
\* mounted at the root, where the path "/" gives the key "//"
MergeIds == {"A", RootBlueprint}

MergeInputs == {"GET"} \X { <<"/", "b">>, Slash }

MergeFns == {"pass"}

MergeRequests == {"GET"} \X { <<"/", "a", "/", "b">>, <<"/", "b">> }

NextMerge ==
  \/ \E bp \in MergeIds, r \in MergeInputs : BlueprintRoute(bp, r[1], r[2])
  \/ \E bp \in MergeIds, fn \in MergeFns : BlueprintMiddleware(bp, fn)
  \/ \E bp \in MergeIds : RegisterBlueprint(bp)
  \/ \E r \in MergeRequests : Handle(r[1], r[2])
  \/ RunMiddleware
  \/ Dispatch
  \/ HandlerReturns
  \/ Respond

SpecMerge == Init /\ [][NextMerge]_vars

\* routes that meet in the tree: a literal and a parameter at one position,
\* two parameter names at one position, a literal branch that stops short
TrieInputs ==
  {"GET"} \X { <<"/", "a", "/", "b">>,
               <<"/", "a", "/", ":", "i">>,
               <<"/", "a", "/", ":", "n", "/", "b">> }

TrieRequests ==
  {"GET"} \X { <<"/", "a", "/", "1">>,
               <<"/", "a", "/", "b">>,
               <<"/", "a", "/", "b", "/", "b">>,
               <<"/", "a", "/", "1", "/", "b">>,
               <<"/", "a", "/", ":">> }

TrieFns == {"pass"}

NextTrie ==
  \/ \E fn \in TrieFns : Middleware(fn)
  \/ \E r \in TrieInputs : Route(r[1], r[2])
  \/ \E r \in TrieRequests : Handle(r[1], r[2])
  \/ RunMiddleware
  \/ Dispatch
  \/ HandlerReturns
  \/ Respond

SpecTrie == Init /\ [][NextTrie]_vars

\* static mappings whose routes overlap, each with a directory of its own
MountDirs == {"./public", "./assets"}

MountRequests ==
  {"GET"} \X { <<"/", "a", "/", "b">>, <<"/", "a">>, <<"/", "b">> }

NextMounts ==
  \/ \E route \in StaticInputs, dir \in MountDirs : Static(route, dir)
  \/ \E r \in MountRequests : Handle(r[1], r[2])
  \/ Dispatch
  \/ \E ok \in BOOLEAN : FileRead(ok)
  \/ Respond

SpecMounts == Init /\ [][NextMounts]_vars

\* middlewares that call next more than once, too late, or not at all
FlagFns == {"pass", "nextTwice", "nextLater", "againLater", "blockAsync"}

FlagRequests == {"GET"} \X { <<"/", "a">> }

NextFlags ==
  \/ \E fn \in FlagFns : Middleware(fn)
  \/ \E r \in FlagRequests : Handle(r[1], r[2])
  \/ RunMiddleware
  \/ MiddlewareSettles
  \/ \E k \in 1..MaxMw : LateNext(k)
  \/ Dispatch
  \/ Respond

SpecFlags == Init /\ [][NextFlags]_vars

\* two requests in flight on one dispatcher
ConcurrentFns == {"nextThenAsync", "passAsync", "blockResponse"}

ConcurrentInputs == { <<"/", "a", "/", ":", "i">> }

ConcurrentRequests == {"GET"} \X { <<"/", "a", "/", "1">>, <<"/", "a", "/", "2">>, <<"/", "b">> }

NextConcurrent ==
  \/ \E fn \in ConcurrentFns : Middleware(fn)
  \/ \E path \in ConcurrentInputs : Get(path)
  \/ \E r \in ConcurrentRequests : Handle(r[1], r[2])
  \/ RunMiddleware
  \/ MiddlewareSettles
  \/ Dispatch
  \/ HandlerReturns
  \/ Switch
  \/ Respond

SpecConcurrent == Init /\ [][NextConcurrent]_vars

\* promises that never settle: a middleware's, and the first handler's
HangFns == {"passAsync", "hangAsync", "blockResponse"}

HangInputs == { <<"/", "a">>, <<"/", "b">> }

HangRequests == {"GET"} \X { <<"/", "a">>, <<"/", "b">> }

NextHang ==
  \/ \E fn \in HangFns : Middleware(fn)
  \/ \E path \in HangInputs : Get(path)
  \/ \E r \in HangRequests : Handle(r[1], r[2])
  \/ RunMiddleware
  \/ MiddlewareSettles
  \/ Dispatch
  \/ HandlerSettles
  \/ Switch
  \/ Respond

SpecHang == Init /\ [][NextHang]_vars

\* =================================================================== claims
\* Notions the claims are stated in, defined on the registration logs and on
\* the request, independently of the route tree.

\* the segments of a pattern or of a request path
Segments(path) == SplitPath(path)

IsParam(part) == StartsWithColon(part)

ParamName(part) == Tail(part)

HasParam(pattern) ==
  LET segs == Segments(pattern) IN
  \E i \in 1..Len(segs) : IsParam(segs[i])

\* the route a pattern denotes: its literal segments, and where its
\* parameters are (whatever their names); "/" is the root route
RouteOf(pattern) ==
  IF pattern = Slash
    THEN <<Slash>>
    ELSE LET segs == Segments(pattern) IN
         [i \in 1..Len(segs) |-> IF IsParam(segs[i]) THEN Colon ELSE segs[i]]

\* the request path has the shape of the pattern: as many segments, and the
\* pattern's literal segments in their places
Instantiates(path, pattern) ==
  LET segs  == Segments(pattern)
      parts == Segments(path)
  IN  /\ Len(parts) = Len(segs)
      /\ \A i \in 1..Len(segs) : IsParam(segs[i]) \/ segs[i] = parts[i]

\* the parameters the pattern binds on that path
Binds(params, path, pattern) ==
  LET segs  == Segments(pattern)
      parts == Segments(path)
  IN  /\ params.set
      /\ \A i \in 1..Len(segs) :
           IsParam(segs[i]) =>
             /\ ParamName(segs[i]) \in DOMAIN params.map
             /\ params.map[ParamName(segs[i])] = parts[i]

\* the registrations of the same method and route as the k-th
SameRoute(j, k) ==
  /\ regLog[j].method = regLog[k].method
  /\ RouteOf(regLog[j].path) = RouteOf(regLog[k].path)

\* the k-th registration is the most recent one of its method and route
IsLatest(k) == \A j \in (k + 1)..Len(regLog) : ~SameRoute(j, k)

\* every middleware of the chain signals continue
AllContinue == \A k \in 1..Len(middlewares) : CallsNext(middlewares[k])

RequestMethod == ToUpperCase(req.method)

\* the handlers invoked for the request in flight
HandlersInvoked ==
  {invoked[k].name : k \in {i \in 1..Len(invoked) : invoked[i].what = "handler"}}

\* the k-th registration's handler, and nothing else, answered the request
AnsweredBy(k) ==
  /\ HandlersInvoked = {regLog[k].handler}
  /\ resp = HandlerResponse(regLog[k].handler)

\* C1: a request with exactly the method and path of a registered route whose
\* pattern has no parameter segment, all middlewares continuing, is answered
\* by that route's (most recently registered) handler, and the response is
\* the handler's response, unaltered.
C1_StaticRouteAnswered ==
  (pc = "done" /\ AllContinue) =>
    \A k \in 1..Len(regLog) :
      ( /\ ~HasParam(regLog[k].path)
        /\ regLog[k].method = RequestMethod
        /\ regLog[k].path = req.path
        /\ IsLatest(k) )
      => AnsweredBy(k)

C1_Witness ==
  /\ pc = "done"
  /\ Len(middlewares) > 0
  /\ AllContinue
  /\ \E k \in 1..Len(regLog) :
       /\ ~HasParam(regLog[k].path)
       /\ regLog[k].method = RequestMethod
       /\ regLog[k].path = req.path
       /\ regLog[k].handler = "h2"
       /\ resp = Response(201, "h2")

\* the k-th registration is the only pattern registered for its method
OnlyPattern(k) ==
  \A j \in 1..Len(regLog) :
    regLog[j].method = regLog[k].method => regLog[j].path = regLog[k].path

\* C2: for a registered route whose pattern has a parameter segment, a request
\* of the route's method whose path has the pattern's shape, with any
\* non-empty text s in the parameter's place, is answered by that route's
\* handler with params[name] = s, and the response is the handler's. (Stated
\* where the pattern is the only one registered for the method, so that no
\* other route can take the request.)
C2_DynamicRouteBinds ==
  (pc = "done" /\ AllContinue) =>
    \A k \in 1..Len(regLog) :
      ( /\ HasParam(regLog[k].path)
        /\ OnlyPattern(k)
        /\ IsLatest(k)
        /\ regLog[k].method = RequestMethod
        /\ Instantiates(req.path, regLog[k].path) )
      => /\ AnsweredBy(k)
         /\ Binds(req.params, req.path, regLog[k].path)

\* the segment texts of the request other than ":", the key under which a
\* Map holds its dynamic child
NoColonSegment(path) ==
  LET parts == Segments(path) IN
  \A i \in 1..Len(parts) : parts[i] # Colon

\* a literal route (k) and a dynamic route (j) of one method share a trie
\* position: the same route up to a position where k has a literal segment
\* and j a parameter
SharePosition(k, j) ==
  LET ksegs == Segments(regLog[k].path)
      jsegs == Segments(regLog[j].path)
      kro   == RouteOf(regLog[k].path)
      jro   == RouteOf(regLog[j].path)
  IN  /\ regLog[k].method = regLog[j].method
      /\ \E i \in 1..Len(ksegs) :
           /\ i <= Len(jsegs)
           /\ SubSeq(kro, 1, i - 1) = SubSeq(jro, 1, i - 1)
           /\ ~IsParam(ksegs[i])
           /\ IsParam(jsegs[i])

\* C3: when a literal route and a dynamic route share a trie position, in
\* whichever order they were registered, a request whose segments are the
\* literal route's is answered by the literal route's handler, never by the
\* dynamic route's.
C3_LiteralBeforeDynamic ==
  (pc = "done" /\ AllContinue) =>
    \A k, j \in 1..Len(regLog) :
      ( /\ regLog[k].method = RequestMethod
        /\ Segments(req.path) = Segments(regLog[k].path)
        /\ ~HasParam(regLog[k].path)
        /\ IsLatest(k)
        /\ SharePosition(k, j) )
      => /\ AnsweredBy(k)
         /\ regLog[j].handler \notin HandlersInvoked

\* the dynamic route registered after the literal one
C3_Witness ==
  /\ pc = "done"
  /\ \E k, j \in 1..Len(regLog) :
       /\ k < j
       /\ SharePosition(k, j)
       /\ ~HasParam(regLog[k].path)
       /\ Len(Segments(regLog[k].path)) = Len(Segments(regLog[j].path))
       /\ regLog[k].method = RequestMethod
       /\ Segments(req.path) = Segments(regLog[k].path)
       /\ AnsweredBy(k)

\* no registered route of the request's method has the shape of its path
NoRouteFor(method, path) ==
  \A k \in 1..Len(regLog) :
    regLog[k].method = method => ~Instantiates(path, regLog[k].path)

\* C4: a request that matches no registered route, whatever its method, with
\* no static prefix matching and no middleware blocking, resolves to 404
\* "Not Found".
C4_UnmatchedIs404 ==
  ( /\ pc = "done"
    /\ AllContinue
    /\ NoRouteFor(RequestMethod, req.path)
    /\ StaticHits(req.path) = {} )
  => resp = NotFoundResponse

\* C9: a request (GET or POST) whose path is a strict prefix of a registered
\* pattern's shape, but has the shape of no registered pattern of its method,
\* does not match: no handler is invoked and, no static prefix matching,
\* the response is 404 "Not Found".
StrictPrefixOfRoute(method, path) ==
  LET parts == Segments(path) IN
  \E k \in 1..Len(regLog) :
    LET segs == Segments(regLog[k].path) IN
    /\ regLog[k].method = method
    /\ Len(parts) < Len(segs)
    /\ \A i \in 1..Len(parts) : IsParam(segs[i]) \/ segs[i] = parts[i]

C9_PrefixIsNoMatch ==
  ( /\ pc = "done"
    /\ AllContinue
    /\ RequestMethod \in Methods
    /\ StrictPrefixOfRoute(RequestMethod, req.path)
    /\ NoRouteFor(RequestMethod, req.path) )
  => /\ HandlersInvoked = {}
     /\ StaticHits(req.path) = {} => resp = NotFoundResponse
     /\ MatchRoute(routes, RequestMethod, req.path) = NoMatch

C9_Witness ==
  /\ pc = "done"
  /\ Len(regLog) = 1
  /\ regLog[1].method = "GET"
  /\ HasParam(regLog[1].path)
  /\ RequestMethod = "GET"
  /\ Len(Segments(req.path)) = 1
  /\ StrictPrefixOfRoute(RequestMethod, req.path)
  /\ resp = NotFoundResponse

\* C5: once a middleware has completed without having called next, nothing
\* more is invoked for the request (no later middleware, no handler, no file
\* read) and handle() resolves to exactly 403 "Middleware blocked the request",
\* whatever the middleware returned.
Completed(k) == k < Len(invoked) \/ pc # "awaitMiddleware"

C5_BlockedIs403 ==
  \A k \in 1..Len(invoked) :
    ( /\ invoked[k].what = "middleware"
      /\ ~CallsNext(invoked[k].name)
      /\ Completed(k) )
    => /\ k = Len(invoked)
       /\ pc = "done"
       /\ resp = BlockedResponse

\* a middleware that returns a Response of its own without calling next, with
\* a later middleware and a matching route that are not run
C5_Witness ==
  /\ pc = "done"
  /\ Len(middlewares) = 2
  /\ middlewares[1] = "blockResponse"
  /\ MatchRoute(routes, RequestMethod, req.path).kind = "match"
  /\ invoked = <<Invocation("middleware", "blockResponse")>>
  /\ resp = BlockedResponse

\* C6: of the registrations of one method and route that took effect on the
\* dispatcher (get/post calls, and a blueprint's routes when it is merged),
\* the most recent one's handler is the route's handler; on a blueprint, the
\* most recent get/post call of a method and path is the one the blueprint
\* holds; and no handler that a later registration replaced is invoked.
\* (Registrations are made between requests, so the route trees are looked
\* at when no request is in flight; the invoked handlers, during a request.)
BlueprintHolds(bp, method, key, handler) ==
  \E e \in 1..Len(blueprints[bp].routes[method]) :
    /\ blueprints[bp].routes[method][e].key = key
    /\ blueprints[bp].routes[method][e].value = handler

C6_LastRegistrationWins ==
  /\ Quiet =>
       \A k \in 1..Len(regLog) :
         IsLatest(k) =>
           LET ro == RouteOf(regLog[k].path) IN
           /\ ro \in DOMAIN routes[regLog[k].method]
           /\ routes[regLog[k].method][ro].handler = regLog[k].handler
  /\ \A bp \in BlueprintIds : \A c \in 1..Len(blueprints[bp].calls) :
       LET call == blueprints[bp].calls[c] IN
       (\A d \in (c + 1)..Len(blueprints[bp].calls) :
          \/ blueprints[bp].calls[d].method # call.method
          \/ blueprints[bp].calls[d].path # call.path)
       => BlueprintHolds(bp, call.method, Prefix(bp) \o call.path, call.handler)
  /\ \A h \in HandlersInvoked :
       \E k \in 1..Len(regLog) :
         /\ regLog[k].handler = h
         /\ IsLatest(k)
         /\ regLog[k].method = RequestMethod
         /\ Instantiates(req.path, regLog[k].path)

\* a blueprint's route replaces a direct route of the same pattern, and the
\* request is answered by the blueprint's handler
C6_Witness ==
  /\ pc = "done"
  /\ \E k, j \in 1..Len(regLog) :
       /\ k < j
       /\ SameRoute(j, k)
       /\ regLog[k].path = regLog[j].path
       /\ regLog[k].via = "app"
       /\ regLog[j].via = "A"
       /\ AnsweredBy(j)

\* the parameter names along the k-th registration's route are still its own
NamesIntact(k) ==
  LET segs == Segments(regLog[k].path)
      ro   == RouteOf(regLog[k].path)
      tree == routes[regLog[k].method]
  IN  \A i \in 1..Len(segs) :
        IsParam(segs[i]) =>
          /\ SubSeq(ro, 1, i) \in DOMAIN tree
          /\ tree[SubSeq(ro, 1, i)].paramName = ParamName(segs[i])

\* no registered route of the method has, where the pattern has a parameter,
\* a literal segment equal to the path's
Unshadowed(method, path, pattern) ==
  LET segs  == Segments(pattern)
      ro    == RouteOf(pattern)
      parts == Segments(path)
  IN  \A j \in 1..Len(regLog) :
        LET jsegs == Segments(regLog[j].path)
            jro   == RouteOf(regLog[j].path)
        IN  \A i \in 1..Len(segs) :
              ( /\ IsParam(segs[i])
                /\ regLog[j].method = method
                /\ i <= Len(jsegs)
                /\ SubSeq(jro, 1, i - 1) = SubSeq(ro, 1, i - 1) )
              => jsegs[i] # parts[i]

\* C7: a blueprint's route taken into the dispatcher by registerBlueprint is a
\* route for its method exactly at prefix + internal path: it was registered
\* under that concatenation, the dispatcher has a route there, a request of
\* that shape reaches its handler (with the parameters bound), and a request
\* of any other shape or method never does. (The route trees are looked at
\* when no request is in flight, registrations being made between requests.)
C7_BlueprintRouteAtPrefix ==
  \A k \in 1..Len(regLog) :
    regLog[k].via \in BlueprintIds =>
      LET bp == regLog[k].via IN
      /\ \E c \in 1..Len(blueprints[bp].calls) :
           /\ blueprints[bp].calls[c].handler = regLog[k].handler
           /\ blueprints[bp].calls[c].method = regLog[k].method
           /\ regLog[k].path = Prefix(bp) \o blueprints[bp].calls[c].path
      /\ Quiet =>
           LET ro == RouteOf(regLog[k].path) IN
           /\ ro \in DOMAIN routes[regLog[k].method]
           /\ routes[regLog[k].method][ro].handler # NoHandler
      /\ ( /\ pc = "done"
           /\ AllContinue
           /\ RequestMethod = regLog[k].method
           /\ IsLatest(k)
           /\ Instantiates(req.path, regLog[k].path)
           /\ Unshadowed(RequestMethod, req.path, regLog[k].path) )
         => AnsweredBy(k)
      /\ regLog[k].handler \in HandlersInvoked =>
           /\ RequestMethod = regLog[k].method
           /\ Instantiates(req.path, regLog[k].path)
           /\ (NamesIntact(k) /\ NoColonSegment(req.path))
                => Binds(req.params, req.path, regLog[k].path)

\* POST prefix/1/b reaches the handler of the blueprint's POST /:i/b
C7_Witness ==
  /\ pc = "done"
  /\ RequestMethod = "POST"
  /\ req.path = <<"/", "a", "/", "1", "/", "b">>
  /\ \E k \in 1..Len(regLog) :
       /\ regLog[k].via = "A"
       /\ regLog[k].path = Prefix("A") \o <<"/", ":", "i", "/", "b">>
       /\ AnsweredBy(k)
       /\ req.params.map[<<"i">>] = <<"1">>

\* the concatenation of the middleware lists of the calls, in call order
RECURSIVE Flatten(_)
Flatten(log) ==
  IF log = <<>> THEN <<>> ELSE Head(log).fns \o Flatten(Tail(log))

IsPrefix(s, t) == Len(s) <= Len(t) /\ SubSeq(t, 1, Len(s)) = s

\* C8: the dispatcher's middleware chain is the concatenation, in call order,
\* of the middlewares given to middleware(fn) and of each blueprint's
\* middleware list as it was at its registerBlueprint call (a merged list
\* keeps the blueprint's order); a request runs them in that order.
C8_ChainIsConcatenation ==
  /\ middlewares = Flatten(mwLog)
  /\ \A k \in 1..Len(mwLog) :
       mwLog[k].by \in BlueprintIds =>
         IsPrefix(mwLog[k].fns, blueprints[mwLog[k].by].middlewares)
  /\ \A k \in 1..Len(invoked) :
       invoked[k].what = "middleware" =>
         /\ k <= Len(Flatten(mwLog))
         /\ invoked[k].name = Flatten(mwLog)[k]

\* a blueprint with two middlewares is merged and a request runs both in the
\* blueprint's order
C8_Witness ==
  /\ pc = "done"
  /\ Len(mwLog) = 1
  /\ mwLog[1].by = "A"
  /\ mwLog[1].fns = <<"passAsync", "pass">>
  /\ Len(invoked) = 2
  /\ invoked[1].name = "passAsync"
  /\ invoked[2].name = "pass"

\* a later registration of the same method gives another name to a parameter
\* of the k-th registration's route
Renamed(k) ==
  LET segs == Segments(regLog[k].path)
      ro   == RouteOf(regLog[k].path)
  IN  \E j \in 1..Len(regLog) :
        LET jsegs == Segments(regLog[j].path)
            jro   == RouteOf(regLog[j].path)
        IN  \E i \in 1..Len(segs) :
              /\ j # k
              /\ regLog[j].method = regLog[k].method
              /\ i <= Len(jsegs)
              /\ SubSeq(jro, 1, i) = SubSeq(ro, 1, i)
              /\ IsParam(segs[i])
              /\ jsegs[i] # segs[i]

\* the parameters of the pattern on that path, and no others
OwnParams(params, path, pattern) ==
  LET segs == Segments(pattern) IN
  /\ Binds(params, path, pattern)
  /\ DOMAIN params.map =
       {ParamName(segs[i]) : i \in {n \in 1..Len(segs) : IsParam(segs[n])}}

\* C10: blueprints with different prefixes merged into one dispatcher, in
\* whichever order, do not clobber each other: a request answered by a
\* blueprint's dynamic route lies under that blueprint's prefix, no handler
\* of the other blueprint is invoked for it, and its params are the route's
\* own parameter names bound to the request's segments.
C10_BlueprintsCoexist ==
  \A k, j \in 1..Len(regLog) :
    ( /\ invoked # <<>>
      /\ regLog[k].via \in BlueprintIds
      /\ regLog[j].via \in BlueprintIds
      /\ regLog[j].via # regLog[k].via
      /\ regLog[k].handler \in HandlersInvoked
      /\ HasParam(regLog[k].path) )
    => /\ IsPrefix(Segments(Prefix(regLog[k].via)), Segments(req.path))
       /\ regLog[j].handler \notin HandlersInvoked
       /\ (~Renamed(k) /\ NoColonSegment(req.path))
            => OwnParams(req.params, req.path, regLog[k].path)

\* B merged first, then A with another parameter name; /b/1 is answered by
\* B's handler with B's name bound
C10_Witness ==
  /\ pc = "done"
  /\ mergeLog = <<"B", "A">>
  /\ req.path = <<"/", "b", "/", "1">>
  /\ \E k, j \in 1..Len(regLog) :
       /\ regLog[k].via = "B"
       /\ regLog[j].via = "A"
       /\ regLog[k].path = <<"/", "b", "/", ":", "n">>
       /\ regLog[j].path = <<"/", "a", "/", ":", "i">>
       /\ AnsweredBy(k)
       /\ req.params.map = (<<"n">> :> <<"1">>)

\* a middleware or a route handler has raised an error for this request
UserCodeFailed == raised # NoError

\* C11: when no invoked middleware or handler fails, handle() resolves to a
\* response and never rejects, whatever the request and the registrations.
C11_AlwaysResponds ==
  (pc = "done" /\ ~UserCodeFailed) => resp.kind = "response"

\* C12: within a request the middlewares are invoked in registration order,
\* each at most once (the k-th invocation is the k-th middleware of the
\* chain), and one at a time: only the middleware invoked last can still be
\* in progress, so nothing is invoked while an earlier middleware's promise
\* is pending, and the loop waits at `await result` for exactly that one.
C12_OneAtATime ==
  /\ \A k \in running :
       /\ k = Len(invoked)
       /\ invoked[k].what = "middleware"
  /\ \A k \in 1..Len(invoked) :
       invoked[k].what = "middleware" =>
         /\ k <= Len(middlewares)
         /\ invoked[k].name = middlewares[k]
  /\ pc = "awaitMiddleware" => running = {Len(invoked)}

\* the second middleware is in progress after the first, an async one that
\* had called next before suspending, has completed
C12_Witness ==
  /\ Len(invoked) = 2
  /\ invoked[1].name = "nextThenAsync"
  /\ invoked[2].name = "passAsync"
  /\ running = {2}
  /\ pc = "awaitMiddleware"

\* the first middleware of the chain that does not signal continue
FirstBlocker ==
  CHOOSE b \in 1..Len(middlewares) :
    /\ ~CallsNext(middlewares[b])
    /\ \A i \in 1..(b - 1) : CallsNext(middlewares[i])

\* the invocations of the first n middlewares of the chain, in order
ChainRun(n) == [i \in 1..n |-> Invocation("middleware", middlewares[i])]

\* C13: the middleware chain runs before any route matching and whatever its
\* result: a handler or a file read is only ever invoked after every
\* middleware has run and signalled continue; a request that matches nothing
\* has still run the whole chain when it is answered; and when a middleware
\* blocks, the chain has run up to it and the answer is 403, whether or not
\* a route or a static prefix matches.
C13_ChainBeforeRouting ==
  /\ \A k \in 1..Len(invoked) :
       invoked[k].what \in {"handler", "file"} =>
         /\ AllContinue
         /\ k = Len(middlewares) + 1
         /\ SubSeq(invoked, 1, k - 1) = ChainRun(Len(middlewares))
  /\ (pc = "done" /\ AllContinue) =>
       /\ Len(invoked) >= Len(middlewares)
       /\ SubSeq(invoked, 1, Len(middlewares)) = ChainRun(Len(middlewares))
  /\ (pc = "done" /\ ~AllContinue) =>
       /\ invoked = ChainRun(FirstBlocker)
       /\ resp = BlockedResponse

\* a request that matches no route and no static prefix, blocked by the
\* second middleware: both middlewares ran, the answer is 403
C13_Witness ==
  /\ pc = "done"
  /\ RequestMethod \in Methods
  /\ NoRouteFor(RequestMethod, req.path)
  /\ StaticHits(req.path) = {}
  /\ Len(middlewares) = 2
  /\ ~AllContinue
  /\ FirstBlocker = 2
  /\ Len(invoked) = 2
  /\ resp = BlockedResponse

\* C14: when a middleware throws, the promise a middleware returned rejects,
\* or the route handler fails, handle() rejects with that failure and makes
\* no response of its own; the failing call is the last thing invoked for
\* the request (no later middleware, handler or file read).
C14_FailurePropagates ==
  /\ \A k \in 1..Len(invoked) :
       ( /\ invoked[k].what = "middleware"
         /\ \/ Throws(invoked[k].name)
            \/ Rejects(invoked[k].name) /\ k \notin running )
       => /\ raised = "middleware error"
          /\ k = Len(invoked)
  /\ raised # NoError =>
       /\ pc = "done"
       /\ resp = Rejected(raised)
       /\ invoked # <<>>
       /\ raised = "handler error" => invoked[Len(invoked)].what = "handler"
       /\ raised = "middleware error" => invoked[Len(invoked)].what = "middleware"

\* the first middleware's promise rejects: the second middleware and the
\* matching route's handler are not invoked, handle() rejects
C14_Witness ==
  /\ pc = "done"
  /\ Len(middlewares) = 2
  /\ middlewares[1] = "rejectAsync"
  /\ MatchRoute(routes, RequestMethod, req.path).kind = "match"
  /\ invoked = <<Invocation("middleware", "rejectAsync")>>
  /\ resp = Rejected("middleware error")

\* the README's error-handling middleware is registered, and has run, before
\* the middleware or handler invoked last
CatcherBeforeLast ==
  \E i \in 1..Len(middlewares) :
    /\ middlewares[i] = "catchNext"
    /\ i < Len(invoked)

\* C15: with the error-handling middleware try { next() } catch { return 500 }
\* registered, an error raised by a later middleware or by the matched
\* handler is caught by it, and the request is answered 500
\* "Internal Server Error" instead of failing.
C15_ErrorMiddlewareCatches ==
  (pc = "done" /\ raised # NoError /\ CatcherBeforeLast) =>
    resp = Response(500, "Internal Server Error")

\* the static file resolver has been invoked for this request
FileInvoked == \E k \in 1..Len(invoked) : invoked[k].what = "file"

\* C16: static mappings are consulted only after route matching has failed:
\* the file resolver is invoked only for a request that matches no route and
\* for which no handler ran; and a request that matches a registered route is
\* answered by that route's handler, without any file read, even when a
\* registered static prefix is a prefix of its path.
C16_RoutesBeforeStatic ==
  LET found == MatchRoute(routes, RequestMethod, req.path) IN
  /\ FileInvoked =>
       /\ found.kind = "null"
       /\ HandlersInvoked = {}
  /\ (pc = "done" /\ AllContinue /\ found.kind = "match") =>
       /\ ~FileInvoked
       /\ HandlersInvoked = {found.handler}
       /\ resp = HandlerResponse(found.handler)
       /\ \E k \in 1..Len(regLog) : regLog[k].handler = found.handler

\* app.static("/", "./public") and app.get("/", h), as in the hello-world
\* example: GET / is answered by h
C16_Witness ==
  /\ pc = "done"
  /\ Len(staticRoutes) = 1
  /\ staticRoutes[1].key = Slash
  /\ req.path = Slash
  /\ StaticHits(req.path) # {}
  /\ Len(regLog) = 1
  /\ regLog[1].path = Slash
  /\ AnsweredBy(1)

\* C17: when no route matches and the request path starts with a registered
\* static prefix (no middleware blocking), the file resolver is invoked and
\* handle() resolves to 200 with the file's bytes or, the read failing, to
\* 404 "File Not Found"; it neither rejects nor answers "Not Found".
C17_StaticOutcome ==
  ( /\ pc = "done"
    /\ AllContinue
    /\ NoRouteFor(RequestMethod, req.path)
    /\ StaticHits(req.path) # {} )
  => /\ FileInvoked
     /\ resp \in {FileResponse, FileNotFoundResponse}

\* the path with a slash added at its end
TrailingSlash(path) == path \o Slash

\* the path with every slash written twice
RECURSIVE DoubleSlashes(_)
DoubleSlashes(path) ==
  IF path = <<>>
    THEN <<>>
    ELSE (IF Head(path) = "/" THEN <<"/", "/">> ELSE <<Head(path)>>)
         \o DoubleSlashes(Tail(path))

\* what handle() does for a match result, all middlewares continuing and no
\* static mapping registered
Outcome(found) ==
  IF found.kind = "match"
    THEN /\ HandlersInvoked = {found.handler}
         /\ resp = HandlerResponse(found.handler)
         /\ req.params = ParamsField(found.params)
    ELSE /\ HandlersInvoked = {}
         /\ resp = NotFoundResponse

\* C18: route matching depends only on the non-empty segments of the request
\* path: a path, the same path with a trailing slash, and the same path with
\* its slashes repeated get the same match result (same handler and params,
\* or no match) in every registered state; "//" matches like "/"; and the
\* request in flight is answered as any of these variants of its path is
\* matched.
C18_SlashesInsignificant ==
  /\ \A r \in PathRequests :
       /\ MatchRoute(routes, r[1], TrailingSlash(r[2])) = MatchRoute(routes, r[1], r[2])
       /\ MatchRoute(routes, r[1], DoubleSlashes(r[2])) = MatchRoute(routes, r[1], r[2])
  /\ pc = "done" =>
       /\ Outcome(MatchRoute(routes, RequestMethod, TrailingSlash(req.path)))
       /\ Outcome(MatchRoute(routes, RequestMethod, DoubleSlashes(req.path)))

\* //a//b is answered by the handler registered for /a/b
C18_Witness ==
  /\ pc = "done"
  /\ req.path = <<"/", "/", "a", "/", "/", "b">>
  /\ \E k \in 1..Len(regLog) :
       /\ regLog[k].path = <<"/", "a", "/", "b">>
       /\ AnsweredBy(k)

\* the route trees the first n registrations give when the registrations of
\* "/" among them are left out
RECURSIVE WithoutRoot(_)
WithoutRoot(n) ==
  IF n = 0
    THEN CreateRouteTree
    ELSE IF regLog[n].path = Slash
      THEN WithoutRoot(n - 1)
      ELSE [WithoutRoot(n - 1) EXCEPT
              ![regLog[n].method] = AddRoute(@, regLog[n].path, regLog[n].handler)]

\* "/" has been registered for the method
RootRegistered(method) ==
  \E k \in 1..Len(regLog) : regLog[k].method = method /\ regLog[k].path = Slash

\* C19: the root path is its own route. A request for "/" is answered by the
\* handler most recently registered for "/" with its method, with empty
\* params; when "/" has not been registered for the method the request
\* matches nothing, whatever other routes (top-level dynamic ones included)
\* are registered; and registrations of "/" change the match result of no
\* path that has a segment: every such path is matched as it would be had
\* "/" never been registered.
C19_RootIsOwnRoute ==
  /\ \A k \in 1..Len(regLog) :
       ( /\ pc = "done"
         /\ req.path = Slash
         /\ regLog[k].path = Slash
         /\ regLog[k].method = RequestMethod
         /\ IsLatest(k) )
       => /\ AnsweredBy(k)
          /\ req.params = ParamsField(NoParams)
  /\ \A m \in Methods :
       ~RootRegistered(m) => MatchRoute(routes, m, Slash) = NoMatch
  /\ (pc = "done" /\ req.path = Slash /\ ~RootRegistered(RequestMethod)) =>
       /\ HandlersInvoked = {}
       /\ resp = NotFoundResponse
  /\ \A r \in PathRequests :
       SplitPath(r[2]) # <<>> =>
         MatchRoute(routes, r[1], r[2])
           = MatchRoute(WithoutRoot(Len(regLog)), r[1], r[2])

\* "/" registered after a top-level dynamic route: GET / is answered by the
\* root's handler, GET /1 still by the dynamic route's
C19_Witness ==
  /\ pc = "done"
  /\ req.path = Slash
  /\ Len(regLog) = 2
  /\ regLog[1].path = <<"/", ":", "i">>
  /\ regLog[2].path = Slash
  /\ AnsweredBy(2)
  /\ req.params = ParamsField(NoParams)
  /\ MatchRoute(routes, "GET", <<"/", "1">>).handler = regLog[1].handler

\* C20: get(path, handler) and post(path, handler) complete for every
\* non-empty path and raise a registration error exactly when the path is
\* the empty string: every call that threw was given the empty path, and no
\* call that completed was.
C20_ThrowsOnlyOnEmpty ==
  /\ \A k \in 1..Len(thrown) :
       thrown[k].via = "app" => thrown[k].path = Empty
  /\ \A k \in 1..Len(regLog) :
       regLog[k].via = "app" => regLog[k].path # Empty

\* a middleware of that name has been invoked for the request in flight
MiddlewareInvoked(fn) ==
  \E k \in 1..Len(invoked) : invoked[k] = Invocation("middleware", fn)

\* C21: handle() attaches the matched route's parameters additively: a
\* params field (and every key in it) that an earlier middleware put on the
\* request is still there when the handler runs.
C21_ParamsAdditive ==
  (HandlersInvoked # {} /\ MiddlewareInvoked("setParams")) =>
    /\ req.params.set
    /\ <<"u">> \in DOMAIN req.params.map
    /\ req.params.map[<<"u">>] = <<"x">>

\* the blueprint has been passed to registerBlueprint
Merged(bp) == \E k \in 1..Len(mergeLog) : mergeLog[k] = bp

\* the handlers given to get/post on the blueprint
HandlersOf(bp) ==
  {blueprints[bp].calls[c].handler : c \in 1..Len(blueprints[bp].calls)}

\* the handlers the route trees of the dispatcher hold
HandlersHeld ==
  UNION {{routes[m][at].handler : at \in DOMAIN routes[m]} : m \in Methods}

\* how many middlewares the middleware(fn) and registerBlueprint calls were
\* given, each counted when the call was made
RECURSIVE GivenCount(_)
GivenCount(log) ==
  IF log = <<>> THEN 0 ELSE Len(Head(log).fns) + GivenCount(Tail(log))

\* C22: a blueprint affects dispatch only through a merge. The routes of a
\* blueprint that was never merged are in no route tree and answer no
\* request, and its middlewares are not in the chain; and a get, post or
\* middleware call on a blueprint, made before or after its merge, leaves
\* the dispatcher's route trees and middleware chain as they were.
C22_OnlyThroughMerge ==
  /\ [](\A bp \in Blueprints :
          ~Merged(bp) =>
            /\ HandlersOf(bp) \cap HandlersHeld = {}
            /\ HandlersOf(bp) \cap HandlersInvoked = {}
            /\ \A k \in 1..Len(mwLog) : mwLog[k].by # bp)
  /\ [](Len(middlewares) = GivenCount(mwLog))
  /\ [][blueprints' # blueprints =>
          /\ routes' = routes
          /\ middlewares' = middlewares
          /\ staticRoutes' = staticRoutes]_vars

\* blueprint A was merged when it was empty, then given a route and a
\* middleware; a request for that route went past an empty chain and was
\* answered 404
C22_Witness ==
  /\ mergeLog = <<"A">>
  /\ Len(blueprints["A"].calls) = 1
  /\ blueprints["A"].calls[1].path = <<"/", "b">>
  /\ blueprints["A"].middlewares = <<"pass">>
  /\ regLog = <<>>
  /\ middlewares = <<>>
  /\ pc = "done"
  /\ req.path = <<"/", "a", "/", "b">>
  /\ invoked = <<>>
  /\ resp = NotFoundResponse

\* C23: a registration call (get, post, registerBlueprint) that raises an
\* error leaves the route trees and the middleware chain exactly as they
\* were before the call: a registerBlueprint that fails on one of the
\* blueprint's routes has added none of that blueprint's middlewares and
\* none of its other routes.
C23_FailedCallChangesNothing ==
  [][thrown' # thrown =>
       /\ routes' = routes
       /\ middlewares' = middlewares
       /\ regLog' = regLog]_vars

\* some completed registration for the method ends exactly at that node
EndsAt(method, at) ==
  \E k \in 1..Len(regLog) :
    regLog[k].method = method /\ RouteOf(regLog[k].path) = at

\* C24: in every state of a route tree, a node carries a handler if and only
\* if some pattern registered for that method ends exactly at that node; a
\* node created only as an intermediate prefix of longer patterns carries
\* none.
C24_HandlerIffPatternEnds ==
  \A m \in Methods : \A at \in DOMAIN routes[m] :
    routes[m][at].handler # NoHandler <=> EndsAt(m, at)

\* /a/b is registered and /a is not: the node of a exists without a handler,
\* the node of b under it carries one
C24_Witness ==
  /\ <<<<"a">>>> \in DOMAIN routes["GET"]
  /\ <<<<"a">>, <<"b">>>> \in DOMAIN routes["GET"]
  /\ routes["GET"][<<<<"a">>>>].handler = NoHandler
  /\ routes["GET"][<<<<"a">>, <<"b">>>>].handler # NoHandler
  /\ <<<<"a">>, Colon>> \in DOMAIN routes["GET"]
  /\ ~EndsAt("GET", <<<<"a">>>>)

\* the handler calls made for the request in flight, in order
HandlerCalls == SelectSeq(invoked, LAMBDA v : v.what = "handler")

\* C25: handling a request leaves the dispatcher's route trees, middleware
\* list and static-mount table unchanged, whatever the outcome (a handler's
\* response, 403, 404, a static file, a propagated failure); and the matched
\* handler is invoked at most once per request.
C25_HandleKeepsTables ==
  /\ [][(pc # "idle" \/ pc' # "idle") =>
          /\ routes' = routes
          /\ middlewares' = middlewares
          /\ staticRoutes' = staticRoutes]_vars
  /\ [](Len(HandlerCalls) <= 1)

\* a request went through a middleware to a handler that failed: the handler
\* was called once, and the failure is what handle() settled with
C25_Witness ==
  /\ pc = "done"
  /\ raised = "handler error"
  /\ Len(HandlerCalls) = 1
  /\ Len(invoked) = 2
  /\ staticRoutes # <<>>
  /\ resp = Rejected("handler error")

\* C26: match soundness. Whenever matchRoute returns (handler, params), some
\* pattern P registered for the method, whose most recent registration
\* supplied that handler, has as many segments as the request path, has its
\* literal segments equal to the request's at their positions, and params
\* maps each parameter name of P, and no other key, to the request's segment
\* at that parameter's position.
C26_MatchSound ==
  HandlersInvoked # {} =>
    \E k \in 1..Len(regLog) :
      /\ regLog[k].method = RequestMethod
      /\ IsLatest(k)
      /\ HandlersInvoked = {regLog[k].handler}
      /\ Instantiates(req.path, regLog[k].path)
      /\ OwnParams(req.params, req.path, regLog[k].path)

\* registrations k and j of one method put parameters of different names at
\* position i of the same route prefix, and j is the last registration to put
\* a parameter there
LaterNameAt(k, j, i) ==
  LET ksegs == Segments(regLog[k].path)
      jsegs == Segments(regLog[j].path)
      kro   == RouteOf(regLog[k].path)
  IN  /\ k < j
      /\ regLog[j].method = regLog[k].method
      /\ i <= Len(ksegs) /\ i <= Len(jsegs)
      /\ SubSeq(RouteOf(regLog[j].path), 1, i) = SubSeq(kro, 1, i)
      /\ IsParam(ksegs[i]) /\ IsParam(jsegs[i])
      /\ ksegs[i] # jsegs[i]
      /\ \A l \in (j + 1)..Len(regLog) :
           LET lsegs == Segments(regLog[l].path) IN
           ~ ( /\ regLog[l].method = regLog[k].method
               /\ i <= Len(lsegs)
               /\ SubSeq(RouteOf(regLog[l].path), 1, i) = SubSeq(kro, 1, i) )

\* C27: a trie node has one dynamic child holding one parameter name, and a
\* later registration overwrites it. After two patterns of one method put
\* different names at the same position, the dynamic node holds the later
\* name only; a request answered by the earlier route's handler has its
\* segment bound under the later name (whenever the segment is bound, that
\* is for any segment text other than ":") and never under the earlier
\* route's own name.
C27_LaterNameOverwrites ==
  \A k, j \in 1..Len(regLog) : \A i \in 1..Len(Segments(regLog[k].path)) :
    LaterNameAt(k, j, i) =>
      LET ksegs == Segments(regLog[k].path)
          jsegs == Segments(regLog[j].path)
          node  == SubSeq(RouteOf(regLog[k].path), 1, i)
          parts == Segments(req.path)
      IN  /\ node \in DOMAIN routes[regLog[k].method]
          /\ routes[regLog[k].method][node].paramName = ParamName(jsegs[i])
          /\ regLog[k].handler \in HandlersInvoked =>
               /\ req.params.set
               /\ ParamName(ksegs[i]) \notin DOMAIN req.params.map
               /\ parts[i] # Colon =>
                    /\ ParamName(jsegs[i]) \in DOMAIN req.params.map
                    /\ req.params.map[ParamName(jsegs[i])] = parts[i]

\* /a/:i, then /a/:n/b; GET /a/1 is answered by the handler of /a/:i with
\* params = { n: "1" }
C27_Witness ==
  /\ Len(regLog) = 2
  /\ regLog[1].path = <<"/", "a", "/", ":", "i">>
  /\ regLog[2].path = <<"/", "a", "/", ":", "n", "/", "b">>
  /\ pc = "done"
  /\ req.path = <<"/", "a", "/", "1">>
  /\ AnsweredBy(1)
  /\ req.params = ParamsField(SetParam(NoParams, <<"n">>, <<"1">>))

\* what the map-and-regex dispatcher, given the same get/post calls, finds
\* for the request in flight
RegexFound ==
  RegexMatchRoute(RegexRoutes(regLog, RequestMethod, Len(regLog)), req.path)

\* C28: the map-and-regex route storage and the trie route storage are
\* interchangeable: after the same get/post registrations, for every request
\* the two matchRoute either both fail or both return the same handler with
\* the same params.
C28_VariantsAgree ==
  (pc = "done" /\ RequestMethod \in Methods) =>
    IF RegexFound.kind = "match"
      THEN /\ HandlersInvoked = {RegexFound.handler}
           /\ req.params = ParamsField(RegexFound.params)
      ELSE HandlersInvoked = {}

\* the routes registered for the method
RoutesFor(method) ==
  {RouteOf(regLog[k].path) : k \in {n \in 1..Len(regLog) : regLog[n].method = method}}

\* some registered route goes through (or ends at) that position
Through(rs, at) == \E r \in rs : IsPrefix(at, r)

\* one descent over the registered routes: at each level the literal
\* continuation if some route has it, otherwise the dynamic one if some route
\* has it, otherwise failure; no level is visited twice
RECURSIVE Descend(_, _, _, _)
Descend(rs, parts, i, at) ==
  IF i > Len(parts)
    THEN [ok |-> TRUE, at |-> at]
    ELSE IF Through(rs, Append(at, parts[i]))
      THEN Descend(rs, parts, i + 1, Append(at, parts[i]))
      ELSE IF Through(rs, Append(at, Colon))
        THEN Descend(rs, parts, i + 1, Append(at, Colon))
        ELSE [ok |-> FALSE, at |-> at]

\* C29: matching is a single greedy descent with no backtracking. At each
\* level the literal child is taken if it exists, otherwise the dynamic
\* child, otherwise the match fails; the request is answered by the latest
\* handler of the route where that one descent ends, and by nothing (404)
\* when the descent fails or ends where no route ends, even if a registered
\* dynamic pattern would accept the whole path.
C29_GreedyDescent ==
  (pc = "done" /\ RequestMethod \in Methods) =>
    LET rs    == RoutesFor(RequestMethod)
        parts == Segments(req.path)
        walk  == Descend(rs, parts, 1, <<>>)
        at    == IF parts = <<>> THEN <<Slash>> ELSE walk.at
    IN  IF walk.ok /\ at \in rs
          THEN \E k \in 1..Len(regLog) :
                 /\ regLog[k].method = RequestMethod
                 /\ RouteOf(regLog[k].path) = at
                 /\ IsLatest(k)
                 /\ AnsweredBy(k)
          ELSE /\ HandlersInvoked = {}
               /\ resp = NotFoundResponse

\* /a/b and /a/:n/b are registered; GET /a/b/b has the shape of /a/:n/b
\* and is answered 404, no handler invoked
C29_Witness ==
  /\ pc = "done"
  /\ req.path = <<"/", "a", "/", "b", "/", "b">>
  /\ \E k, j \in 1..Len(regLog) :
       /\ regLog[k].path = <<"/", "a", "/", "b">>
       /\ regLog[j].path = <<"/", "a", "/", ":", "n", "/", "b">>
       /\ regLog[j].method = RequestMethod
       /\ Instantiates(req.path, regLog[j].path)
  /\ invoked = <<>>
  /\ resp = NotFoundResponse

\* the positions in the chain of the invoked middlewares that call next()
\* only after a suspension
LateCallers ==
  {k \in 1..Len(invoked) :
     invoked[k].what = "middleware" /\ CallsNextBeforeSettle(invoked[k].name)
       /\ ~CallsNextBeforeReturn(invoked[k].name)}

\* C30: a middleware that signals continue only after an asynchronous
\* suspension is treated as continuing. While its promise is pending nothing
\* is decided: the loop waits at that middleware and no response is set; once
\* it has completed the loop is past it, so the request goes on to the next
\* middleware or to routing, and a chain of continuing middlewares never ends
\* in the 403 of a blocked request.
C30_LateNextContinues ==
  /\ \A k \in LateCallers :
       IF k \in running
         THEN pc = "awaitMiddleware" /\ mwi = k /\ k = Len(invoked) /\ resp = NoResponse
         ELSE mwi > k
  /\ (pc = "done" /\ AllContinue) =>
       /\ resp # BlockedResponse
       /\ Len(invoked) >= Len(middlewares)
       /\ SubSeq(invoked, 1, Len(middlewares)) = ChainRun(Len(middlewares))

\* a chain of a middleware that calls next() after a suspension and a plain
\* one: both ran, in order, and the request was routed (404, no route)
C30_Witness ==
  /\ middlewares = <<"passAsync", "pass">>
  /\ pc = "done"
  /\ running = {}
  /\ invoked = <<Invocation("middleware", "passAsync"), Invocation("middleware", "pass")>>
  /\ resp = NotFoundResponse

\* the middlewares before position k all signal continue
ReachesPosition(k) == \A i \in 1..(k - 1) : CallsNext(middlewares[i])

MergedJustBefore(bp) ==
  LET regs == RoutesInOrder(bp, blueprints[bp].routes) IN
  /\ mergeLog # <<>>
  /\ mergeLog[Len(mergeLog)] = bp
  /\ mwLog[Len(mwLog)] = [by |-> bp, fns |-> blueprints[bp].middlewares]
  /\ Len(regLog) >= Len(regs)
  /\ SubSeq(regLog, Len(regLog) - Len(regs) + 1, Len(regLog)) = regs
  /\ \A k \in 1..Len(regs) : ~AddRouteThrows(regs[k].path)

\* C35: merging is idempotent: calling registerBlueprint twice with the same
\* blueprint leaves the dispatcher reflecting the blueprint exactly once: the
\* second call changes neither the route trees nor the middleware chain.
C35_MergeIdempotent ==
  [][\A bp \in Blueprints :
       (MergedJustBefore(bp) /\ mergeLog' = Append(mergeLog, bp)) =>
         /\ routes' = routes
         /\ middlewares' = middlewares]_vars

\* C37: registration is append-only. Along every sequence of registration
\* calls the middleware chain only grows at its tail (the chain before a
\* step is a prefix of the chain after it), and every (method, path) that
\* matches some route before a step still matches some route after it.
C37_AppendOnly ==
  [][/\ IsPrefix(middlewares, middlewares')
     /\ \A r \in TrieRequests :
          MatchRoute(routes, r[1], r[2]).kind = "match"
            => MatchRoute(routes', r[1], r[2]).kind = "match"]_vars

\* the step puts a literal child where the walk of the path had taken the
\* dynamic child
Intercepted(method, path) ==
  LET tree  == routes[method]
      parts == Segments(path)
      walk  == MatchLoop(tree, parts, 1, <<>>, NoParams)
  IN  \E i \in 1..Len(walk.at) :
        /\ walk.at[i] = Colon
        /\ parts[i] # Colon
        /\ Has(routes'[method], SubSeq(walk.at, 1, i - 1), parts[i])

\* C37, amended: registration is append-only on the tables. The middleware
\* chain only grows at its tail; every node of a route tree stays, and a node
\* that carries a handler still carries one after any step; and a (method,
\* path) that matches some route before a registration still matches some
\* route after it unless the registration put a literal child where the
\* path had been taken by the dynamic child (the descent does not go back).
C37_TablesOnlyGrow ==
  [][/\ IsPrefix(middlewares, middlewares')
     /\ routes' # routes =>
          /\ \A m \in Methods : \A at \in DOMAIN routes[m] :
               /\ at \in DOMAIN routes'[m]
               /\ routes[m][at].handler # NoHandler
                    => routes'[m][at].handler # NoHandler
          /\ \A r \in TrieRequests :
               ( /\ MatchRoute(routes, r[1], r[2]).kind = "match"
                 /\ ~Intercepted(r[1], r[2]) )
               => MatchRoute(routes', r[1], r[2]).kind = "match"]_vars

\* /a/:i and then /a/:n/b were registered behind a middleware: the node of
\* the parameter under a was passed through again and still carries the
\* handler of /a/:i
C37_Witness ==
  /\ middlewares = <<"pass">>
  /\ Len(regLog) = 2
  /\ regLog[1].path = <<"/", "a", "/", ":", "i">>
  /\ regLog[2].path = <<"/", "a", "/", ":", "n", "/", "b">>
  /\ routes["GET"][<<<<"a">>, Colon>>].handler = regLog[1].handler
  /\ MatchRoute(routes, "GET", <<"/", "a", "/", "1">>).kind = "match"

\* the file reads made for the request in flight, in order
FileReads == SelectSeq(invoked, LAMBDA v : v.what = "file")

\* the routes of the static mappings, in entries order
MountKeys(entries) == [k \in 1..Len(entries) |-> entries[k].key]

\* C36: static mappings are tried in registration order (a mapping keeps the
\* place its route was first given), and the first mapping whose route the
\* request path starts with decides the response: one file is read, in that
\* mapping's directory; when the read fails the answer is 404 "File Not
\* Found" and no mapping registered later is consulted, even when its route
\* also matches the path.
C36_FirstMountDecides ==
  /\ [][IsPrefix(MountKeys(staticRoutes), MountKeys(staticRoutes'))]_vars
  /\ [](FileReads # <<>> =>
          /\ Len(FileReads) = 1
          /\ StaticHits(req.path) # {}
          /\ \E k \in StaticHits(req.path) :
               /\ \A j \in StaticHits(req.path) : k <= j
               /\ FileReads[1].name = staticRoutes[k].value
          /\ pc = "done" => resp \in {FileResponse, FileNotFoundResponse})

\* "/a" is mounted on ./public and then "/" on ./assets; GET /a/b reads in
\* ./public only, the read fails and the answer is 404 "File Not Found"
C36_Witness ==
  /\ staticRoutes = <<[key |-> <<"/", "a">>, value |-> "./public"],
                      [key |-> <<"/">>, value |-> "./assets"]>>
  /\ pc = "done"
  /\ req.path = <<"/", "a", "/", "b">>
  /\ invoked = <<Invocation("file", "./public")>>
  /\ resp = FileNotFoundResponse

\* C31: the continue flag belongs to one middleware invocation of one
\* request and is read once, when that middleware returns or its promise
\* settles. Calling next several times is calling it once; a next called
\* after that point, or an earlier middleware's next called while a later
\* middleware runs, never turns a blocked outcome into a continue: the
\* request ends 403 at the first middleware that had not called its own next
\* by its completion, and goes on to routing only if there is none.
C31_FlagReadOnce ==
  pc = "done" =>
    IF AllContinue
      THEN /\ resp = NotFoundResponse
           /\ invoked = ChainRun(Len(middlewares))
      ELSE /\ resp = BlockedResponse
           /\ invoked = ChainRun(FirstBlocker)

\* next() twice lets the request through to a middleware that calls next
\* only from a timer: the request is answered 403, and the late call has set
\* the flag of that invocation since
C31_Witness ==
  /\ middlewares = <<"nextTwice", "nextLater">>
  /\ pc = "done"
  /\ invoked = ChainRun(2)
  /\ resp = BlockedResponse
  /\ nextCalled

\* what handle() does with a request when no other request is in flight: the
\* middlewares it invokes, the handler it invokes, the params it leaves on the
\* request, the response
Alone(request) ==
  LET found == MatchRoute(routes, ToUpperCase(request.method), request.path) IN
  IF ~AllContinue
    THEN [invoked |-> ChainRun(FirstBlocker),
          params  |-> NoParamsField,
          resp    |-> BlockedResponse]
    ELSE IF found.kind = "match"
      THEN [invoked |-> Append(ChainRun(Len(middlewares)),
                               Invocation("handler", found.handler)),
            params  |-> ParamsField(found.params),
            resp    |-> HandlerResponse(found.handler)]
      ELSE [invoked |-> ChainRun(Len(middlewares)),
            params  |-> NoParamsField,
            resp    |-> NotFoundResponse]

OutcomeOf(call) ==
  [invoked |-> call.invoked, params |-> call.req.params, resp |-> call.resp]

\* C32: two handle() calls in flight on one dispatcher, interleaved at their
\* awaits in every possible way once registration is over, do not interfere:
\* each request ends with the middlewares run, the handler matched, the
\* params on its own request and the response it would have had alone.
C32_ConcurrentAsAlone ==
  /\ pc = "done" => OutcomeOf(Locals) = Alone(req)
  /\ other.pc = "done" => OutcomeOf(other) = Alone(other.req)

\* GET /a/1 and GET /a/2 both went through an awaited middleware and are both
\* answered, each with its own i
C32_Witness ==
  /\ middlewares = <<"nextThenAsync", "passAsync">>
  /\ pc = "done"
  /\ other.pc = "done"
  /\ req.path = <<"/", "a", "/", "1">>
  /\ other.req.path = <<"/", "a", "/", "2">>
  /\ req.params = ParamsField(SetParam(NoParams, <<"i">>, <<"1">>))
  /\ other.req.params = ParamsField(SetParam(NoParams, <<"i">>, <<"2">>))
  /\ resp = HandlerResponse("h1")
  /\ other.resp = HandlerResponse("h1")

\* a handle() call waiting for a promise that never settles
Hung(call) ==
  \/ /\ call.pc = "awaitMiddleware"
     /\ NeverSettles(middlewares[call.mwi])
  \/ /\ call.pc = "awaitHandler"
     /\ call.invoked[Len(call.invoked)].name \in HangingHandlers

\* C33: there is no timeout and no cancellation. A request whose middleware
\* or handler returned a promise that never settles stays where it is: it has
\* no response (no 403, no 404), nothing further is invoked for it, and no
\* step of the dispatcher, for this or for another request, changes that.
C33_HungStaysPending ==
  [][ /\ Hung(Locals) =>
           /\ resp = NoResponse
           /\ Locals' = Locals \/ other' = Locals
      /\ Hung(other) =>
           /\ other.resp = NoResponse
           /\ other' = other \/ Locals' = other ]_vars

\* GET /a waits for the promise of h1, which never settles, while GET /b,
\* which arrived later, has its response from h2
C33_Witness ==
  /\ Hung(other)
  /\ other.req.path = <<"/", "a">>
  /\ other.invoked[Len(other.invoked)] = Invocation("handler", "h1")
  /\ other.resp = NoResponse
  /\ pc = "done"
  /\ req.path = <<"/", "b">>
  /\ resp = HandlerResponse("h2")

====
